---------------------------- MODULE Spec2Model ----------------------------
(***************************************************************************)
(* Model of the sanctions-check frontend.                                  *)
(*                                                                         *)
(*   - the report renderer of BulkScreening v2.0 (HTML built in the        *)
(*     browser): generateReportHTML, generateBulkReportHTML, BulkResultRow *)
(*   - the BulkScreening v4.0 component (reports fetched from the backend) *)
(*     together with the App shell that enables or disables it             *)
(*   - the service worker's fetch handler                                  *)
(*                                                                         *)
(* Confidence values are held in hundredths of a percent (spec: 2-decimal  *)
(* precision), displayed percentages in tenths of a percent.               *)
(***************************************************************************)
EXTENDS Integers, Sequences, FiniteSets, TLC

VARIABLES
    \* ---- App state ----
    healthStatus,     \* last health object reported by HealthCheck, NULL before
    activeTab,        \* "individual" or "bulk"
    screeningLoading, \* individual screening in progress
    screeningResult,  \* NULL, the response body, or [error |-> message]
    indivRequests,    \* POST /api/v1/screen requests in flight
    \* ---- BulkScreening component state (useState hooks) ----
    file,             \* selected file, NULL when none
    loading,          \* bulk submission in progress
    results,          \* bulk response, NULL or [results |-> <<ScreeningResult>>]
    error,            \* error message, NoError when null
    selectedResults,  \* Set of original indices, in insertion order
    currentPage,
    pageSize,
    filterType,       \* "all", "hits" or "clear"
    \* ---- the network and the browser ----
    bulkRequests,     \* POST /api/v1/screen/bulk requests in flight
    reportRequests,   \* POST /api/v1/reports/* requests in flight
    opened,           \* what the last window.open() displays, NULL before
    csv,              \* rows of the last CSV written by exportResults, NULL before
    uiSteps,          \* user operations done in a selection run
    \* ---- service worker ----
    swCaches,         \* CacheStorage: cache name -> request -> response or NULL
    swEvents,         \* the fetch events handled, with where each one stands
    swPuts,           \* cache.put calls started and not yet done
    swSerial,         \* responses the network has given so far
    swLifecycle,      \* where the activation of the worker stands
    \* ---- InstallPWA and the window it runs in ----
    installPWA,       \* state and listeners of the InstallPWA component
    pwaBrowser,       \* window.electron, display mode, sessionStorage, install events
    platformInfo,     \* what getPlatform and getPlatformName last returned
    \* ---- Electron main process ----
    desktop           \* mainWindow, build mode and what its handlers decided

\* null for object-valued state (TLC compares records with records only).
NULL == [kind |-> "null"]

\* null for string-valued state.
NoError == "null"

appVars == <<healthStatus, activeTab, screeningLoading, screeningResult, indivRequests>>
bulkVars == <<file, loading, results, error, selectedResults, currentPage, pageSize,
              filterType>>
netVars == <<bulkRequests, reportRequests>>
outVars == <<opened, csv>>
pageVars == <<appVars, bulkVars, netVars, outVars, uiSteps>>
swVars == <<swCaches, swEvents, swPuts, swSerial, swLifecycle>>
pwaVars == <<installPWA, pwaBrowser, platformInfo>>
desktopVars == <<desktop>>
hostVars == <<pwaVars, desktopVars>>
vars == <<pageVars, swVars, hostVars>>

-----------------------------------------------------------------------------
(* Bounds *)

MaxResults == 2       \* longest bulk response of the renderer and selection runs
MaxMatches == 2       \* most matches of one result
MaxBatch == 1         \* longest bulk response of the submission runs
MaxInFlight == 2      \* most bulk requests in flight at once
MaxUiSteps == 3        \* user operations of a selection run
MaxPendingReports == 1 \* most report requests in flight at once
MaxEvents == 2         \* fetch events of a service worker run
MaxPromptEvents == 2   \* beforeinstallprompt events of one page load
MaxClicks == 2         \* clicks on "Install" of one page load
MaxWindows == 3        \* main windows made in one run of the desktop app

-----------------------------------------------------------------------------
(* Data model (spec section 3 and 6) *)

Scale == 100          \* hundredths per percent: confidence has 2 decimals
MaxPercent == 100     \* confidence and hit_rate range is [0, 100]

Recommendations ==
    {"APPROVE", "MANUAL_REVIEW", "LOW_CONFIDENCE_REVIEW", "REJECT", "AUTO_ESCALATE"}

\* A confidence.overall value c: c.h hundredths of a percent.  The double
\* that holds it is exact only when c.h/100 is dyadic; at a decimal tie
\* (x.x5) an inexact double lies just below or just above the tie, which is
\* what decides toFixed(1): c.below says it lies below.
InexactTie(h) == h % 10 = 5 /\ h % 25 # 0

Confidence(h, below) == [h |-> h, below |-> below]

IsConfidence(c) ==
    /\ c.h \in 0..(MaxPercent * Scale)
    /\ c.below \in BOOLEAN
    /\ c.below => InexactTie(c.h)

\* Confidences at the ends of the range and on both sides of the thresholds.
GridConfidences ==
    { Confidence(h, FALSE) : h \in {0, 6999, 7000, 8999, 9000, 10000} }

Match(c, rec) == [overall |-> c, recommendation |-> rec]

\* Matches of a result are sorted by confidence, highest first (spec 3).
SortedDesc(ms) ==
    \A i \in 1..(Len(ms) - 1) : ms[i].overall.h >= ms[i + 1].overall.h

MatchLists(confs, n) ==
    { ms \in UNION { [1..k -> { Match(c, r) : c \in confs, r \in Recommendations }]
                     : k \in 1..n } : SortedDesc(ms) }

\* A text is the sequence of its characters (or of runs of them); the empty
\* text stands for '' and for a field that is missing, both falsy.
NoText == <<>>

\* The record echoed in a result, under the field names of the backend
\* (nombre, cedula, pais) and the alternative ones.
Input(nombre, name, cedula, document, documento, pais, country) ==
    [ nombre |-> nombre, name |-> name, cedula |-> cedula, document |-> document,
      documento |-> documento, pais |-> pais, country |-> country ]

EchoedInput ==
    Input(<<"Ana">>, NoText, <<"8-123">>, NoText, NoText, <<"PA">>, NoText)

\* ScreeningResult: is_hit == (hit_count > 0) == (len(matches) > 0).
\* screening_id is unique (spec 6); a response stamps it by position, so
\* that equal-looking results stay distinct objects as they are in JavaScript.
Clear ==
    [ is_hit |-> FALSE, hit_count |-> 0, matches |-> <<>>, screening_id |-> 0,
      input |-> EchoedInput ]
Hit(ms) ==
    [ is_hit |-> TRUE, hit_count |-> Len(ms), matches |-> ms, screening_id |-> 0,
      input |-> EchoedInput ]

\* The result of a record whose screening failed (spec 4.6): marked with an
\* error, counted in total_processed and not among the hits.
ErrorMarked ==
    [ is_hit |-> FALSE, hit_count |-> 0, matches |-> <<>>, screening_id |-> 0,
      input |-> EchoedInput, error |-> "screening_failed" ]

MidConfidence == Confidence(8250, FALSE)

\* Results of the multi-record responses: clear, or one match of each
\* recommendation.
TinyResults ==
    {Clear} \cup { Hit(<<Match(MidConfidence, r)>>) : r \in Recommendations }

\* A recommendation the engine can give a confidence with the example
\* thresholds of spec 4.5 (low = 70, high = 90).
TypicalRecommendations(c) ==
    IF c.h < 70 * Scale THEN {"APPROVE"}
    ELSE IF c.h < 90 * Scale THEN {"MANUAL_REVIEW"}
    ELSE {"REJECT"}

\* Results of the one-record responses: several matches on the threshold
\* grid with every recommendation.
RichResults == { Hit(ms) : ms \in MatchLists(GridConfidences, MaxMatches) }

BulkResponse(rs) ==
    [ kind |-> "bulk_response",
      results |-> [i \in DOMAIN rs |-> [rs[i] EXCEPT !.screening_id = i]] ]

Responses ==
    { BulkResponse(rs) : rs \in UNION { [1..n -> TinyResults] : n \in 0..MaxResults } }
    \cup { BulkResponse(<<r>>) : r \in RichResults }

-----------------------------------------------------------------------------
(* Number.prototype.toFixed(1) *)

\* x hundredths -> tenths, to the nearest; an exact tie takes the larger
\* (ECMA-262: "if there are two such n, pick the larger n"), an inexact one
\* follows the side the double lies on.
toFixed1(c) ==
    LET q == c.h \div 10
        r == c.h % 10
    IN  IF r > 5 THEN q + 1
        ELSE IF r < 5 THEN q
        ELSE IF c.below THEN q ELSE q + 1

-----------------------------------------------------------------------------
(* BulkScreening v2.0: reports built in the browser *)

HighThreshold == 90
MediumThreshold == 70

\* Mutant: the percentage is scaled once more (the 825% defect).
confidenceLevel_rescaled(match) ==
    Confidence(match.overall.h * 100, match.overall.below)

\* const confidenceLevel = confidence.overall || 0
confidenceLevel(match) == match.overall

\* Mutant: the thresholds are exclusive.
confidenceClass_exclusive(level) ==
    IF level.h > HighThreshold * Scale THEN "high"
    ELSE IF level.h > MediumThreshold * Scale THEN "medium"
    ELSE "low"

confidenceClass(level) ==
    IF level.h >= HighThreshold * Scale THEN "high"
    ELSE IF level.h >= MediumThreshold * Scale THEN "medium"
    ELSE "low"

\* The label of a match card of the individual report.
reportRecommendationLabel(rec) ==
    IF rec = "REJECT" THEN "RECHAZAR"
    ELSE IF rec = "APPROVE" THEN "APROBAR"
    ELSE "REVISAR"

matchCard(match) ==
    [ pct   |-> toFixed1(confidenceLevel(match)),
      cls   |-> confidenceClass(confidenceLevel(match)),
      label |-> reportRecommendationLabel(match.recommendation) ]

generateReportHTML_v2(result) ==
    [ is_hit |-> result.is_hit,
      cards  |-> IF result.is_hit /\ Len(result.matches) > 0
                 THEN [i \in 1..Len(result.matches) |-> matchCard(result.matches[i])]
                 ELSE <<>> ]

\* const rec = r.is_hit && r.matches?.[0]?.recommendation
\*   ? r.matches[0].recommendation : 'APPROVE'
bulkReportRecommendation(r) ==
    IF r.is_hit /\ Len(r.matches) > 0 THEN r.matches[1].recommendation ELSE "APPROVE"

bulkReportLabel(rec) ==
    IF rec = "REJECT" THEN "RECHAZAR"
    ELSE IF rec = "APPROVE" THEN "APROBAR"
    ELSE "REVISAR"

\* ((hits.length / results.length) * 100).toFixed(1): 0/0 is NaN.
hitRate(nHits, nTotal) ==
    IF nTotal = 0 THEN [isNaN |-> TRUE]
    ELSE [isNaN |-> FALSE, tenths |-> (2 * 1000 * nHits + nTotal) \div (2 * nTotal)]

CountHits(rs) == Cardinality({ i \in DOMAIN rs : rs[i].is_hit })

generateBulkReportHTML_v2(rs) ==
    [ total  |-> Len(rs),
      hits   |-> CountHits(rs),
      clears |-> Len(rs) - CountHits(rs),
      rate   |-> hitRate(CountHits(rs), Len(rs)),
      rows   |-> [i \in DOMAIN rs |->
                    [ rec   |-> bulkReportRecommendation(rs[i]),
                      label |-> bulkReportLabel(bulkReportRecommendation(rs[i])) ]] ]

\* <span className={`result-badge ...`}>{is_hit ? 'HIT' : 'OK'}</span>
rowStatus(result) == IF result.is_hit THEN "HIT" ELSE "OK"

\* BulkResultRow of v2.0 and of v4.0: the badge text of a table row.
getRecommendationText_v2(recommendation) ==
    CASE recommendation = "REJECT" -> "RECHAZAR"
      [] recommendation \in {"REVIEW", "MANUAL_REVIEW"} -> "REVISAR"
      [] OTHER -> "APROBAR"

getRecommendationText(recommendation) ==
    CASE recommendation = "AUTO_ESCALATE" -> "ESCALAR"
      [] recommendation = "REJECT" -> "RECHAZAR"
      [] recommendation \in {"REVIEW", "MANUAL_REVIEW", "LOW_CONFIDENCE_REVIEW"} -> "REVISAR"
      [] recommendation = "AUTO_CLEAR" -> "AUTO OK"
      [] OTHER -> "APROBAR"

\* const recommendation = is_hit && matches?.[0]?.recommendation
\*   ? matches[0].recommendation : 'APPROVE'
rowRecommendation(result) ==
    IF result.is_hit /\ Len(result.matches) > 0
    THEN result.matches[1].recommendation ELSE "APPROVE"

rowRecommendation_v2(result) ==
    IF result.is_hit /\ Len(result.matches) > 0
    THEN result.matches[1].recommendation ELSE "APPROVE"

\* a || b on texts and missing fields.
orElse(a, b) == IF a = NoText THEN b ELSE a

\* input?.key
field(input, key) == IF input = NULL THEN NoText ELSE input[key]

\* const nombre = input?.nombre || input?.name || '-'; ...
rowFields(input) ==
    [ nombre |-> orElse(field(input, "nombre"), orElse(field(input, "name"), <<"-">>)),
      documento |-> orElse(field(input, "cedula"),
                      orElse(field(input, "document"),
                        orElse(field(input, "documento"), <<"-">>))),
      pais |-> orElse(field(input, "pais"), orElse(field(input, "country"), <<"-">>)) ]

BulkResultRow(result) ==
    [ recommendation |-> rowRecommendation(result),
      text |-> getRecommendationText(rowRecommendation(result)),
      nombre |-> rowFields(result.input).nombre,
      documento |-> rowFields(result.input).documento,
      pais |-> rowFields(result.input).pais ]

BulkResultRow_v2(result) ==
    [ recommendation |-> rowRecommendation_v2(result),
      text |-> getRecommendationText_v2(rowRecommendation_v2(result)) ]

\* The rows of the results table are a function of the state (render).
TableRows ==
    IF results = NULL THEN <<>>
    ELSE [i \in DOMAIN results.results |-> BulkResultRow(results.results[i])]

TableRows_v2 ==
    IF results = NULL THEN <<>>
    ELSE [i \in DOMAIN results.results |-> BulkResultRow_v2(results.results[i])]

\* exportResults (the same in both versions): one CSV row per result.
\* Mutant: the export takes the recommendation of the last match.
exportRecommendation_last(r) ==
    IF r.is_hit /\ Len(r.matches) > 0
    THEN r.matches[Len(r.matches)].recommendation ELSE "APPROVE"

exportRecommendation(r) ==
    IF r.is_hit /\ Len(r.matches) > 0 THEN r.matches[1].recommendation ELSE "APPROVE"

RECURSIVE doubleQuotes(_)
\* str.replace(/"/g, '""')
doubleQuotes(str) ==
    IF str = <<>> THEN <<>>
    ELSE (IF Head(str) = "\"" THEN <<"\"", "\"">> ELSE <<Head(str)>>)
            \o doubleQuotes(Tail(str))

\* escapeCSVField: a field with a comma, a quote or a line break is quoted.
escapeCSVField(str) ==
    IF \E i \in DOMAIN str : str[i] \in {",", "\"", "\n", "\r"}
    THEN <<"\"">> \o doubleQuotes(str) \o <<"\"">>
    ELSE str

csvRow(r) ==
    [ nombre |-> escapeCSVField(orElse(field(r.input, "nombre"), NoText)),
      documento |-> escapeCSVField(orElse(field(r.input, "cedula"), NoText)),
      pais |-> escapeCSVField(orElse(field(r.input, "pais"), NoText)),
      resultado |-> IF r.is_hit THEN "COINCIDENCIA" ELSE "LIMPIO",
      coincidencias |-> r.hit_count,
      recommendation |-> exportRecommendation(r) ]

exportResults ==
    /\ results # NULL
    /\ csv' = [ kind |-> "csv",
                rows |-> [i \in DOMAIN results.results |-> csvRow(results.results[i])] ]
    /\ UNCHANGED <<bulkVars, netVars, opened>>

\* viewReport(result, index) of v2.0: builds the HTML and opens it.
viewReport_v2(index) ==
    /\ results # NULL
    /\ index + 1 \in DOMAIN results.results
    /\ opened' = [ kind |-> "individual", by |-> "frontend",
                   of |-> <<results.results[index + 1]>>,
                   html |-> generateReportHTML_v2(results.results[index + 1]) ]
    /\ UNCHANGED <<bulkVars, netVars, csv>>

\* printAll of v2.0.
printAll_v2 ==
    /\ results # NULL
    /\ opened' = [ kind |-> "bulk", by |-> "frontend",
                   of |-> results.results,
                   html |-> generateBulkReportHTML_v2(results.results) ]
    /\ UNCHANGED <<bulkVars, netVars, csv>>

PAGE_SIZES == {10, 25, 50, 100}
DEFAULT_PAGE_SIZE == 10

\* const [...] = useState(...) of App and of BulkScreening.
\* The runs of the page leave the service worker aside: whatever it answers
\* to a fetch of the page is one of Outcomes.
NoServiceWorker ==
    /\ swCaches = <<>>
    /\ swEvents = <<>>
    /\ swPuts = <<>>
    /\ swSerial = 0
    /\ swLifecycle = NULL

\* The runs of one part leave InstallPWA and the Electron main process aside.
NoHost ==
    /\ installPWA = NULL
    /\ pwaBrowser = NULL
    /\ platformInfo = NULL
    /\ desktop = NULL

AppMounted ==
    /\ healthStatus = NULL
    /\ activeTab = "individual"
    /\ screeningLoading = FALSE
    /\ screeningResult = NULL
    /\ indivRequests = <<>>

\* The state a successful submission leaves (handleSubmit, lines 1337-1348).
BulkLoaded(data) ==
    /\ results = data
    /\ selectedResults = <<>>
    /\ currentPage = 1
    /\ filterType = "all"
    /\ pageSize = DEFAULT_PAGE_SIZE
    /\ loading = FALSE
    /\ error = NoError

AcceptedFile == [kind |-> "file", name |-> <<"a", ".csv">>, size |-> 1024]

\* Responses of a batch in which the screening of some record failed.
ErrorResponses ==
    { BulkResponse(rs) :
        rs \in { q \in UNION { [1..n -> {Clear, ErrorMarked,
                                         Hit(<<Match(MidConfidence, "REJECT")>>)}]
                               : n \in 1..MaxResults } :
                  \E i \in DOMAIN q : q[i] = ErrorMarked } }

\* The renderer runs start from a loaded response: one of Responses, one with
\* an error-marked record, or a one-record response whose match has any
\* confidence of the range.
InitReport ==
    /\ \/ (\E data \in Responses : BulkLoaded(data))
       \/ (\E data \in ErrorResponses : BulkLoaded(data))
       \/ (\E h \in 0..(MaxPercent * Scale), below \in BOOLEAN :
            /\ IsConfidence(Confidence(h, below))
            /\ \E r \in TypicalRecommendations(Confidence(h, below)) :
                 BulkLoaded(BulkResponse(<<Hit(<<Match(Confidence(h, below), r)>>)>>)))
    /\ file = AcceptedFile
    /\ healthStatus = [status |-> "healthy"]
    /\ activeTab = "bulk"
    /\ screeningLoading = FALSE /\ screeningResult = NULL /\ indivRequests = <<>>
    /\ bulkRequests = <<>> /\ reportRequests = <<>>
    /\ opened = NULL
    /\ csv = NULL
    /\ uiSteps = 0
    /\ NoServiceWorker
    /\ NoHost

NextReport ==
    \/ \E index \in 0..(MaxResults - 1) : viewReport_v2(index) /\ UNCHANGED <<appVars, uiSteps, swVars, hostVars>>
    \/ printAll_v2 /\ UNCHANGED <<appVars, uiSteps, swVars, hostVars>>
    \/ exportResults /\ UNCHANGED <<appVars, uiSteps, swVars, hostVars>>

SpecReport == InitReport /\ [][NextReport]_vars

-----------------------------------------------------------------------------
(* Claims about the reports built in the browser *)

IndividualOpened == opened.kind = "individual" /\ opened.by = "frontend"
BulkOpened == opened.kind = "bulk" /\ opened.by = "frontend"
ReportedResult == opened.of[1]

\* C1: every match with a confidence c in [0,100] is shown in the individual
\* report with the percentage c rounded to one decimal: one card per match,
\* the shown value within 0.05 of c and never above 100.
C1_PercentageNotRescaled ==
    (IndividualOpened /\ ReportedResult.is_hit) =>
        /\ Len(opened.html.cards) = Len(ReportedResult.matches)
        /\ \A i \in DOMAIN opened.html.cards :
             LET shown == opened.html.cards[i].pct
                 c == ReportedResult.matches[i].overall.h
             IN  /\ 10 * shown - c \in -5..5
                 /\ shown <= MaxPercent * 10

\* A report showing 8.3% for a confidence of 8.25.
C1_Witness ==
    /\ IndividualOpened
    /\ \E i \in DOMAIN opened.html.cards :
         /\ ReportedResult.matches[i].overall.h = 825
         /\ opened.html.cards[i].pct = 83

RecTier(rec) ==
    CASE rec \in {"AUTO_ESCALATE", "REJECT"} -> 2
      [] rec \in {"MANUAL_REVIEW", "LOW_CONFIDENCE_REVIEW"} -> 1
      [] OTHER -> 0

LabelTier(label) ==
    CASE label \in {"ESCALAR", "RECHAZAR"} -> 2
      [] label = "REVISAR" -> 1
      [] OTHER -> 0

\* C2: no rendering of a recommendation (table row, individual report, bulk
\* report) shows a label less severe than the recommendation: reject and
\* escalate never as review or approve, the reviews never as approve.
C2_NoLessSevereLabel ==
    /\ \A i \in DOMAIN TableRows :
         LabelTier(TableRows[i].text) >= RecTier(TableRows[i].recommendation)
    /\ IndividualOpened =>
         \A i \in DOMAIN opened.html.cards :
            LabelTier(opened.html.cards[i].label)
               >= RecTier(ReportedResult.matches[i].recommendation)
    /\ BulkOpened =>
         \A i \in DOMAIN opened.html.rows :
            LabelTier(opened.html.rows[i].label) >= RecTier(opened.html.rows[i].rec)

ExpectedRecommendation(r, shown) ==
    /\ (r.is_hit /\ Len(r.matches) >= 1) => shown = r.matches[1].recommendation
    /\ ~r.is_hit => shown = "APPROVE"

\* C3: the table row, the CSV row and the bulk report row of a result all
\* carry matches[0].recommendation when the result is a hit with a match and
\* APPROVE when it is not a hit.
C3_SameRecommendationEverywhere ==
    \A i \in DOMAIN results.results :
        LET r == results.results[i]
        IN  /\ ExpectedRecommendation(r, TableRows[i].recommendation)
            /\ csv.kind = "csv" =>
                 /\ DOMAIN csv.rows = DOMAIN results.results
                 /\ ExpectedRecommendation(r, csv.rows[i].recommendation)
            /\ BulkOpened =>
                 /\ DOMAIN opened.html.rows = DOMAIN results.results
                 /\ ExpectedRecommendation(r, opened.html.rows[i].rec)

\* Exported and printed: a hit whose first of two matches is REJECT and whose
\* second is APPROVE.
C3_Witness ==
    /\ csv.kind = "csv"
    /\ BulkOpened
    /\ \E i \in DOMAIN results.results :
         /\ Len(results.results[i].matches) = 2
         /\ results.results[i].matches[1].recommendation = "REJECT"
         /\ results.results[i].matches[2].recommendation = "APPROVE"
         /\ csv.rows[i].recommendation = "REJECT"
         /\ opened.html.rows[i].rec = "REJECT"

\* C4: the hit rate of the bulk report is 100 * hits / total (to one
\* decimal) for a non-empty list and 0 for an empty one, never NaN.
C4_HitRateDefined ==
    BulkOpened =>
        LET n == Len(results.results)
            h == CountHits(results.results)
            rate == opened.html.rate
        IN  /\ ~rate.isNaN
            /\ n = 0 => rate.tenths = 0
            /\ n > 0 => 2 * n * rate.tenths - 2000 * h \in (0 - n)..n

ClassRank(cls) == CASE cls = "low" -> 0 [] cls = "medium" -> 1 [] cls = "high" -> 2

\* C8: the confidence class is low below 70, medium from 70 to below 90 and
\* high from 90: each confidence has exactly one class and a higher
\* confidence never has a lower class.
C8_ConfidenceBands ==
    IndividualOpened =>
        LET cards == opened.html.cards
            conf(i) == ReportedResult.matches[i].overall.h
        IN  /\ \A i \in DOMAIN cards :
                 /\ cards[i].cls \in {"low", "medium", "high"}
                 /\ cards[i].cls = "low" <=> conf(i) < 7000
                 /\ cards[i].cls = "medium" <=> (7000 <= conf(i) /\ conf(i) < 9000)
                 /\ cards[i].cls = "high" <=> conf(i) >= 9000
            /\ \A i, j \in DOMAIN cards :
                 conf(i) < conf(j) => ClassRank(cards[i].cls) <= ClassRank(cards[j].cls)

\* A report with a match at exactly 90 (high) above one at exactly 70 (medium).
C8_Witness ==
    /\ IndividualOpened
    /\ Len(opened.html.cards) = 2
    /\ ReportedResult.matches[1].overall.h = 9000 /\ opened.html.cards[1].cls = "high"
    /\ ReportedResult.matches[2].overall.h = 7000 /\ opened.html.cards[2].cls = "medium"

-----------------------------------------------------------------------------
(* JavaScript Array and Set *)

Range(seq) == { seq[i] : i \in DOMAIN seq }

Min(S) == CHOOSE x \in S : \A y \in S : x <= y

\* Array.prototype.indexOf: the 0-based place of the first element that is
\* item, -1 when there is none.
indexOf(array, item) ==
    IF \E i \in DOMAIN array : array[i] = item
    THEN Min({ i \in DOMAIN array : array[i] = item }) - 1
    ELSE -1

\* array[i] with a 0-based i.
At(array, i) == array[i + 1]

\* Array.prototype.slice(start, end).
slice(array, start, end) == SubSeq(array, start + 1, end)

\* A Set keeps its elements in insertion order: add appends a new element,
\* delete removes it.
SetHas(set, x) == x \in Range(set)
SetAdd(set, x) == IF SetHas(set, x) THEN set ELSE Append(set, x)
SetDelete(set, x) == SelectSeq(set, LAMBDA y : y # x)

RECURSIVE NewSet(_)
\* new Set(array)
NewSet(array) ==
    IF array = <<>> THEN <<>>
    ELSE SetAdd(NewSet(SubSeq(array, 1, Len(array) - 1)), array[Len(array)])

RECURSIVE SortAscending(_)
\* Array.from(set).sort((a, b) => a - b)
SortAscending(array) ==
    IF array = <<>> THEN <<>>
    ELSE LET m == Min(Range(array))
         IN  <<m>> \o SortAscending(SelectSeq(array, LAMBDA y : y # m))

\* Math.ceil(a / b)
CeilDiv(a, b) == (a + b - 1) \div b

-----------------------------------------------------------------------------
(* BulkScreening v4.0: filter, pages and selection *)

Filters == {"all", "hits", "clear"}

resultList == IF results = NULL THEN <<>> ELSE results.results

filteredResults ==
    CASE filterType = "hits" -> SelectSeq(resultList, LAMBDA r : r.is_hit)
      [] filterType = "clear" -> SelectSeq(resultList, LAMBDA r : ~r.is_hit)
      [] OTHER -> resultList

totalPages == CeilDiv(Len(filteredResults), pageSize)
startIndex == (currentPage - 1) * pageSize
endIndex ==
    IF startIndex + pageSize < Len(filteredResults)
    THEN startIndex + pageSize ELSE Len(filteredResults)
paginatedResults == slice(filteredResults, startIndex, endIndex)

\* The rows drawn: globalIndex = startIndex + pageIndex.
RowIndices == { startIndex + k - 1 : k \in DOMAIN paginatedResults }

\* getRealIndex, changed to take the displayed place for the index.
getRealIndex_displayed(filteredIndex) == filteredIndex

\* results?.results?.indexOf(filteredResults[filteredIndex]) ?? filteredIndex
getRealIndex(filteredIndex) == indexOf(resultList, At(filteredResults, filteredIndex))

isSelected(filteredIndex) == SetHas(selectedResults, getRealIndex(filteredIndex))

handleFilterChange(newFilter) ==
    /\ results # NULL
    /\ filterType' = newFilter
    /\ currentPage' = 1
    /\ UNCHANGED <<file, loading, results, error, selectedResults, pageSize>>
    /\ UNCHANGED <<netVars, outVars>>

handlePageSizeChange(newSize) ==
    /\ results # NULL
    /\ pageSize' = newSize
    /\ currentPage' = 1
    /\ UNCHANGED <<file, loading, results, error, selectedResults, filterType>>
    /\ UNCHANGED <<netVars, outVars>>

\* The pagination controls are drawn when totalPages > 1; every one of them
\* sets a page of 1..totalPages.
setCurrentPage(page) ==
    /\ results # NULL
    /\ totalPages > 1
    /\ page \in 1..totalPages
    /\ currentPage' = page
    /\ UNCHANGED <<file, loading, results, error, selectedResults, pageSize, filterType>>
    /\ UNCHANGED <<netVars, outVars>>

SetSelected(next) ==
    /\ selectedResults' = next
    /\ UNCHANGED <<file, loading, results, error, currentPage, pageSize, filterType>>
    /\ UNCHANGED <<netVars, outVars>>

\* The checkbox of the row drawn at filteredIndex.
toggleSelection(filteredIndex) ==
    /\ filteredIndex \in RowIndices
    /\ LET realIndex == getRealIndex(filteredIndex)
       IN  SetSelected(IF SetHas(selectedResults, realIndex)
                       THEN SetDelete(selectedResults, realIndex)
                       ELSE SetAdd(selectedResults, realIndex))

RECURSIVE addPage_displayed(_, _, _)
\* The loop of selectAllOnPage, changed to add the displayed places.
addPage_displayed(newSelected, from, to) ==
    IF from >= to THEN newSelected
    ELSE addPage_displayed(SetAdd(newSelected, from), from + 1, to)

RECURSIVE addPage(_, _, _)
\* for (let i = from; i < to; i++) { ... newSelected.add(realIndex) }
addPage(newSelected, from, to) ==
    IF from >= to THEN newSelected
    ELSE LET realIndex == indexOf(resultList, At(filteredResults, from))
         IN  addPage(IF realIndex # -1 THEN SetAdd(newSelected, realIndex)
                     ELSE newSelected, from + 1, to)

RECURSIVE deletePage(_, _, _)
deletePage(newSelected, from, to) ==
    IF from >= to THEN newSelected
    ELSE LET realIndex == indexOf(resultList, At(filteredResults, from))
         IN  deletePage(IF realIndex # -1 THEN SetDelete(newSelected, realIndex)
                        ELSE newSelected, from + 1, to)

selectAllOnPage == SetSelected(addPage(selectedResults, startIndex, endIndex))

deselectAllOnPage == SetSelected(deletePage(selectedResults, startIndex, endIndex))

allOnPageSelected ==
    /\ Len(paginatedResults) # 0
    /\ \A k \in DOMAIN paginatedResults :
         SetHas(selectedResults, indexOf(resultList, paginatedResults[k]))

\* The header checkbox: checking it selects the page, unchecking deselects.
headerCheckbox ==
    /\ results # NULL
    /\ IF ~(allOnPageSelected /\ Len(paginatedResults) > 0)
       THEN selectAllOnPage ELSE deselectAllOnPage

selectAll ==
    /\ results # NULL
    /\ SetSelected(NewSet([i \in DOMAIN results.results |-> i - 1]))

\* results.results.map((r, i) => r.is_hit ? i : -1).filter(i => i !== -1);
\* the button is disabled when the response reports no hits.
selectAllHits ==
    /\ results # NULL
    /\ CountHits(results.results) # 0
    /\ LET mapped == [i \in DOMAIN results.results |->
                        IF results.results[i].is_hit THEN i - 1 ELSE -1]
       IN  SetSelected(NewSet(SelectSeq(mapped, LAMBDA i : i # -1)))

\* The button is drawn while something is selected.
clearSelection ==
    /\ results # NULL
    /\ Len(selectedResults) > 0
    /\ SetSelected(<<>>)

-----------------------------------------------------------------------------
(* BulkScreening v4.0: reports fetched from the backend *)

\* How a fetch to the backend can end: a 2xx response with a JSON body, a
\* non-2xx response, a rejected fetch, a 2xx response whose body is no JSON.
Outcomes == {"ok", "http_error", "network_error", "bad_body"}

Remove(seq, i) == SubSeq(seq, 1, i - 1) \o SubSeq(seq, i + 1, Len(seq))

\* generateReportHTML / generateBulkReportHTML up to the await of fetch.
requestReport(caller, endpoint, payload) ==
    /\ Len(reportRequests) < MaxPendingReports
    /\ reportRequests' = Append(reportRequests,
            [caller |-> caller, endpoint |-> endpoint, payload |-> payload])
    /\ UNCHANGED <<bulkVars, bulkRequests, outVars>>

\* What generateReportHTML / generateBulkReportHTML resolve to: the
\* html_content of the backend, or the error page of the catch block.
reportHTML(request, outcome) ==
    IF outcome = "ok"
    THEN [ kind |-> IF request.endpoint = "generate" THEN "individual" ELSE "bulk",
           by |-> "backend", of |-> request.payload, html |-> "html_content" ]
    ELSE [ kind |-> "error_page", by |-> "frontend", of |-> request.payload,
           html |-> outcome ]

\* The rest of viewReport / printSelected / printAll: window.open of the HTML.
reportSettles(i, outcome) ==
    /\ i \in DOMAIN reportRequests
    /\ opened' = reportHTML(reportRequests[i], outcome)
    /\ reportRequests' = Remove(reportRequests, i)
    /\ UNCHANGED <<bulkVars, bulkRequests, csv>>

\* The "Ver" button of the row drawn at filteredIndex.
viewReport(filteredIndex) ==
    /\ filteredIndex \in RowIndices
    /\ requestReport("viewReport", "generate", <<At(filteredResults, filteredIndex)>>)

\* selectedData without the sort: the results in the order they were selected.
selectedData_unsorted ==
    LET mapped == [k \in DOMAIN selectedResults |->
                     IF selectedResults[k] + 1 \in DOMAIN resultList
                     THEN <<At(resultList, selectedResults[k])>> ELSE <<>>]
        present == SelectSeq(mapped, LAMBDA m : m # <<>>)
    IN  [k \in DOMAIN present |-> present[k][1]]

\* Array.from(selectedResults).sort((a, b) => a - b)
\*   .map(i => results.results[i]).filter(Boolean)
selectedData ==
    LET sorted == SortAscending(selectedResults)
        mapped == [k \in DOMAIN sorted |->
                     IF sorted[k] + 1 \in DOMAIN resultList
                     THEN <<At(resultList, sorted[k])>> ELSE <<>>]
        present == SelectSeq(mapped, LAMBDA m : m # <<>>)
    IN  [k \in DOMAIN present |-> present[k][1]]

printSelected ==
    /\ results # NULL
    /\ Len(selectedResults) # 0
    /\ requestReport("printSelected", "generate-bulk", selectedData)

printAll ==
    /\ results # NULL
    /\ requestReport("printAll", "generate-bulk", results.results)

-----------------------------------------------------------------------------
(* BulkScreening v4.0: file and submission *)

MaxFileSize == 10 * 1024 * 1024

\* A file name is <<stem, suffix>>: name.endsWith('.csv') reads the suffix.
File(stem, suffix, size) == [kind |-> "file", name |-> <<stem, suffix>>, size |-> size]

Files ==
    { File("a", ".csv", 1024), File("b", ".csv", MaxFileSize),
      File("c", ".txt", 1024), File("d", ".csv", MaxFileSize + 1) }

endsWithCsv(name) == name[Len(name)] = ".csv"

\* Responses of the submission runs.
SubmitResponses ==
    { BulkResponse(rs) :
        rs \in UNION { [1..n -> {Clear, Hit(<<Match(MidConfidence, "REJECT")>>)}]
                       : n \in 0..MaxBatch } }

SubmitErrors == {"server_error", "network_error", "parse_error"}

\* The message handleSubmit's catch block sets.
submitErrorMessage(outcome) ==
    CASE outcome = "http_error" -> "server_error"
      [] outcome = "network_error" -> "network_error"
      [] OTHER -> "parse_error"

\* validateAndSetFile, changed to refuse a file of exactly 10 MB.
validateAndSetFile_exclusive(selectedFile) ==
    IF ~endsWithCsv(selectedFile.name) \/ selectedFile.size >= MaxFileSize
    THEN /\ error' = (IF ~endsWithCsv(selectedFile.name) THEN "csv_required" ELSE "too_big")
         /\ UNCHANGED <<file, loading, results, selectedResults, currentPage, pageSize,
                        filterType>>
    ELSE /\ file' = selectedFile
         /\ error' = NoError
         /\ results' = NULL
         /\ selectedResults' = <<>>
         /\ currentPage' = 1
         /\ UNCHANGED <<loading, pageSize, filterType>>

\* validateAndSetFile, changed to leave the selection as it is.
validateAndSetFile_keepsSelection(selectedFile) ==
    IF ~endsWithCsv(selectedFile.name)
    THEN /\ error' = "csv_required"
         /\ UNCHANGED <<file, loading, results, selectedResults, currentPage, pageSize,
                        filterType>>
    ELSE IF selectedFile.size > MaxFileSize
    THEN /\ error' = "too_big"
         /\ UNCHANGED <<file, loading, results, selectedResults, currentPage, pageSize,
                        filterType>>
    ELSE /\ file' = selectedFile
         /\ error' = NoError
         /\ results' = NULL
         /\ currentPage' = 1
         /\ UNCHANGED <<loading, selectedResults, pageSize, filterType>>

validateAndSetFile(selectedFile) ==
    IF ~endsWithCsv(selectedFile.name)
    THEN /\ error' = "csv_required"
         /\ UNCHANGED <<file, loading, results, selectedResults, currentPage, pageSize,
                        filterType>>
    ELSE IF selectedFile.size > MaxFileSize
    THEN /\ error' = "too_big"
         /\ UNCHANGED <<file, loading, results, selectedResults, currentPage, pageSize,
                        filterType>>
    ELSE /\ file' = selectedFile
         /\ error' = NoError
         /\ results' = NULL
         /\ selectedResults' = <<>>
         /\ currentPage' = 1
         /\ UNCHANGED <<loading, pageSize, filterType>>

\* isServiceAvailable, changed to hold until a status says otherwise.
isServiceAvailable_open == healthStatus = NULL \/ healthStatus.status = "healthy"

\* const isServiceAvailable = healthStatus?.status === 'healthy'
isServiceAvailable == healthStatus # NULL /\ healthStatus.status = "healthy"

\* <BulkScreening disabled={!isServiceAvailable} />
disabled == ~isServiceAvailable

\* The file input is disabled={disabled || loading}; the upload area opens
\* its dialog only while no file is selected.
handleFileChange(selectedFile) ==
    /\ ~(disabled \/ loading)
    /\ file = NULL
    /\ validateAndSetFile(selectedFile)
    /\ UNCHANGED <<netVars, outVars>>

handleDrop(droppedFile) ==
    /\ validateAndSetFile(droppedFile)
    /\ UNCHANGED <<netVars, outVars>>

\* The submit button is disabled={disabled || loading || !file}.
handleSubmit ==
    /\ ~(disabled \/ loading \/ file = NULL)
    /\ ~(file = NULL \/ loading)
    /\ Len(bulkRequests) < MaxInFlight
    /\ loading' = TRUE
    /\ error' = NoError
    /\ bulkRequests' = Append(bulkRequests, [file |-> file, live |-> TRUE])
    /\ UNCHANGED <<file, results, selectedResults, currentPage, pageSize, filterType>>
    /\ UNCHANGED <<reportRequests, outVars>>

\* The catch and finally blocks of handleSubmit, changed to drop what is shown.
submitCatch_clearing(outcome) ==
    /\ error' = submitErrorMessage(outcome)
    /\ loading' = FALSE
    /\ results' = NULL
    /\ selectedResults' = <<>>
    /\ currentPage' = 1
    /\ filterType' = "all"
    /\ UNCHANGED <<file, pageSize>>

\* The catch and finally blocks of handleSubmit.
submitCatch(outcome) ==
    /\ error' = submitErrorMessage(outcome)
    /\ loading' = FALSE
    /\ UNCHANGED <<file, results, selectedResults, currentPage, pageSize, filterType>>

\* handleSubmit after the await, changed to clear loading in the catch block
\* only (no finally).
submitSettles_noFinally(i, outcome, data) ==
    /\ i \in DOMAIN bulkRequests
    /\ bulkRequests' = Remove(bulkRequests, i)
    /\ IF ~bulkRequests[i].live
       THEN UNCHANGED bulkVars
       ELSE IF outcome = "ok"
       THEN /\ results' = data
            /\ selectedResults' = <<>>
            /\ currentPage' = 1
            /\ filterType' = "all"
            /\ UNCHANGED <<file, error, pageSize, loading>>
       ELSE submitCatch(outcome)
    /\ UNCHANGED <<reportRequests, outVars>>

\* handleSubmit after the await: the try, catch and finally blocks.  The
\* setters of an unmounted component do nothing.
submitSettles(i, outcome, data) ==
    /\ i \in DOMAIN bulkRequests
    /\ bulkRequests' = Remove(bulkRequests, i)
    /\ IF ~bulkRequests[i].live
       THEN UNCHANGED bulkVars
       ELSE IF outcome = "ok"
       THEN /\ results' = data
            /\ selectedResults' = <<>>
            /\ currentPage' = 1
            /\ filterType' = "all"
            /\ loading' = FALSE
            /\ UNCHANGED <<file, error, pageSize>>
       ELSE submitCatch(outcome)
    /\ UNCHANGED <<reportRequests, outVars>>

\* "Limpiar" is disabled={loading || (!file && !results)}; "Cambiar" is
\* drawn whenever a file is selected.
handleClear ==
    /\ \/ ~(loading \/ (file = NULL /\ results = NULL))
       \/ file # NULL
    /\ file' = NULL
    /\ results' = NULL
    /\ error' = NoError
    /\ selectedResults' = <<>>
    /\ currentPage' = 1
    /\ filterType' = "all"
    /\ UNCHANGED <<loading, pageSize>>
    /\ UNCHANGED <<netVars, outVars>>

\* useState initial values of BulkScreening.
BulkMounted ==
    /\ file = NULL
    /\ loading = FALSE
    /\ results = NULL
    /\ error = NoError
    /\ selectedResults = <<>>
    /\ currentPage = 1
    /\ pageSize = DEFAULT_PAGE_SIZE
    /\ filterType = "all"

-----------------------------------------------------------------------------
(* App *)

Tabs == {"individual", "bulk"}

HealthValues ==
    { [status |-> "healthy"], [status |-> "degraded"], [status |-> "unhealthy"] }

handleHealthUpdate(health) ==
    /\ healthStatus' = health
    /\ UNCHANGED <<activeTab, screeningLoading, screeningResult, indivRequests>>
    /\ UNCHANGED <<bulkVars, netVars, outVars>>

\* {activeTab === TABS.BULK && <BulkScreening ... />}: leaving the tab
\* unmounts BulkScreening, entering it mounts a new one.  Requests of the
\* unmounted component stay in flight.
setActiveTab(tab) ==
    /\ tab # activeTab
    /\ activeTab' = tab
    /\ file' = NULL
    /\ loading' = FALSE
    /\ results' = NULL
    /\ error' = NoError
    /\ selectedResults' = <<>>
    /\ currentPage' = 1
    /\ pageSize' = DEFAULT_PAGE_SIZE
    /\ filterType' = "all"
    /\ bulkRequests' = [i \in DOMAIN bulkRequests |-> [bulkRequests[i] EXCEPT !.live = FALSE]]
    /\ UNCHANGED <<healthStatus, screeningLoading, screeningResult, indivRequests>>
    /\ UNCHANGED <<reportRequests, outVars>>

\* ScreeningForm (not in this source tree) is given loading and
\* disabled={!isServiceAvailable} and calls onSubmit while neither holds.
ScreeningFormCanSubmit == ~disabled /\ ~screeningLoading

handleIndividualScreen ==
    /\ screeningLoading' = TRUE
    /\ screeningResult' = NULL
    /\ indivRequests' = Append(indivRequests, [kind |-> "screen"])
    /\ UNCHANGED <<healthStatus, activeTab>>
    /\ UNCHANGED <<bulkVars, netVars, outVars>>

ScreeningFormSubmit ==
    /\ activeTab = "individual"
    /\ ScreeningFormCanSubmit
    /\ handleIndividualScreen

\* The body of a response: JSON with the fields detail and message ("" where
\* the field is absent or falsy), text that is no JSON ("" for an empty
\* body), or a body that cannot be read.
JsonBody(detail, message) ==
    [kind |-> "json", detail |-> detail, message |-> message, text |-> "{json}"]
TextBody(text) == [kind |-> "text", text |-> text]
UnreadableBody == [kind |-> "unreadable"]

Bodies ==
    { JsonBody(d, m) : d \in {"", "detail"}, m \in {"", "message"} }
      \cup { TextBody(""), TextBody("Bad Gateway"), UnreadableBody }

\* What fetch settles with: a response, or a rejection (TypeError).
IndividualResponses ==
    { [kind |-> "response", status |-> st, body |-> bd] :
        st \in {200, 422, 500}, bd \in Bodies }
      \cup { [kind |-> "rejected"] }

\* One response of each kind, for the runs that are not about the message.
TypicalIndividualResponses ==
    { [kind |-> "response", status |-> 200, body |-> JsonBody("", "")],
      [kind |-> "response", status |-> 200, body |-> TextBody("Bad Gateway")],
      [kind |-> "response", status |-> 500, body |-> JsonBody("detail", "")],
      [kind |-> "rejected"] }

\* `Error del servidor (${response.status})`
serverErrorMessage(status) == <<"Error del servidor", status>>

\* The error message, changed to fall through from a JSON body without
\* detail and message to the text of the body.
individualErrorMessage_textAfterJson(response) ==
    IF response.kind = "rejected" THEN <<"Error de red">>
    ELSE IF response.status = 200 THEN <<"SyntaxError">>
    ELSE IF response.body.kind = "json" /\ response.body.detail # ""
    THEN <<response.body.detail>>
    ELSE IF response.body.kind = "json" /\ response.body.message # ""
    THEN <<response.body.message>>
    ELSE IF response.body.kind \in {"json", "text"} /\ response.body.text # ""
    THEN <<response.body.text>>
    ELSE serverErrorMessage(response.status)

\* The message handleIndividualScreen gives setScreeningResult({ error }):
\* the network message for a TypeError, else err.message, which is the
\* parser's for a 2xx body that is no JSON and errorMessage for a non-2xx
\* response: errorData.detail || errorData.message || errorMessage when the
\* body parses as JSON, else the text if it is not empty.
individualErrorMessage(response) ==
    IF response.kind = "rejected" THEN <<"Error de red">>
    ELSE IF response.status = 200 THEN <<"SyntaxError">>
    ELSE IF response.body.kind = "json"
    THEN IF response.body.detail # "" THEN <<response.body.detail>>
         ELSE IF response.body.message # "" THEN <<response.body.message>>
         ELSE serverErrorMessage(response.status)
    ELSE IF response.body.kind = "text" /\ response.body.text # ""
    THEN <<response.body.text>>
    ELSE serverErrorMessage(response.status)

\* response.ok and response.json() both succeed.
parsedOk(response) ==
    response.kind = "response" /\ response.status = 200 /\ response.body.kind = "json"

\* handleIndividualScreen after the await: try, catch and finally.
individualSettles(response) ==
    /\ indivRequests # <<>>
    /\ indivRequests' = Tail(indivRequests)
    /\ screeningResult' =
         IF parsedOk(response) THEN [kind |-> "screening_result"]
         ELSE [kind |-> "error", error |-> individualErrorMessage(response)]
    /\ screeningLoading' = FALSE
    /\ UNCHANGED <<healthStatus, activeTab>>
    /\ UNCHANGED <<bulkVars, netVars, outVars>>

-----------------------------------------------------------------------------
(* The submission runs: App with BulkScreening from their mount *)

Init ==
    /\ AppMounted
    /\ BulkMounted
    /\ bulkRequests = <<>> /\ reportRequests = <<>>
    /\ opened = NULL /\ csv = NULL
    /\ uiSteps = 0
    /\ NoServiceWorker
    /\ NoHost

\* BulkScreening is drawn, and its handlers run, while its tab is active.
Next ==
    \/ \E h \in HealthValues : handleHealthUpdate(h) /\ UNCHANGED <<uiSteps, swVars, hostVars>>
    \/ \E t \in Tabs : setActiveTab(t) /\ UNCHANGED <<uiSteps, swVars, hostVars>>
    \/ ScreeningFormSubmit /\ UNCHANGED <<uiSteps, swVars, hostVars>>
    \/ \E r \in TypicalIndividualResponses :
         individualSettles(r) /\ UNCHANGED <<uiSteps, swVars, hostVars>>
    \/ \E f \in Files :
         activeTab = "bulk" /\ handleFileChange(f) /\ UNCHANGED <<appVars, uiSteps, swVars, hostVars>>
    \/ \E f \in Files :
         activeTab = "bulk" /\ handleDrop(f) /\ UNCHANGED <<appVars, uiSteps, swVars, hostVars>>
    \/ activeTab = "bulk" /\ handleSubmit /\ UNCHANGED <<appVars, uiSteps, swVars, hostVars>>
    \/ activeTab = "bulk" /\ handleClear /\ UNCHANGED <<appVars, uiSteps, swVars, hostVars>>
    \/ \E f \in Filters :
         activeTab = "bulk" /\ handleFilterChange(f) /\ UNCHANGED <<appVars, uiSteps, swVars, hostVars>>
    \/ \E k \in 0..(MaxBatch - 1) :
         activeTab = "bulk" /\ toggleSelection(k) /\ UNCHANGED <<appVars, uiSteps, swVars, hostVars>>
    \/ activeTab = "bulk" /\ selectAll /\ UNCHANGED <<appVars, uiSteps, swVars, hostVars>>
    \/ \E i \in 1..MaxInFlight, o \in Outcomes :
         \E data \in (IF o = "ok" THEN SubmitResponses ELSE {NULL}) :
           submitSettles(i, o, data) /\ UNCHANGED <<appVars, uiSteps, swVars, hostVars>>

Spec == Init /\ [][Next]_vars

-----------------------------------------------------------------------------
(* Claims on the submission runs *)

ReportedHealthy == healthStatus # NULL /\ healthStatus.status = "healthy"

ScreeningStarted ==
    \/ Len(bulkRequests') > Len(bulkRequests)
    \/ Len(indivRequests') > Len(indivRequests)

LiveSettled ==
    \E i \in DOMAIN bulkRequests :
        bulkRequests[i].live /\ bulkRequests' = Remove(bulkRequests, i)

\* C6: when the submission of the mounted component settles, either it
\* succeeded (the response is shown, the error untouched), or error is set to
\* a message and results, selectedResults, currentPage and filterType are
\* left as they were.
C6_FailedSubmissionKeepsState ==
    [][ LiveSettled =>
          \/ /\ error' \in SubmitErrors
             /\ UNCHANGED <<results, selectedResults, currentPage, filterType>>
          \/ /\ error' = error
             /\ results' \in SubmitResponses
             /\ selectedResults' = <<>> /\ currentPage' = 1 /\ filterType' = "all" ]_vars

\* A resubmission failed while earlier results, a selection and a filter
\* were on display.
C6_Witness ==
    /\ results # NULL
    /\ error \in SubmitErrors
    /\ selectedResults # <<>>
    /\ filterType # "all"
    /\ ~loading

-----------------------------------------------------------------------------
(* The selection runs: BulkScreening with a response on display *)

\* A response one record longer than a page, with hits and clears mixed.
LongResponse ==
    BulkResponse([i \in 1..(DEFAULT_PAGE_SIZE + 1) |->
                    IF i % 3 = 0 THEN Hit(<<Match(MidConfidence, "REJECT")>>) ELSE Clear])

ShortResponses ==
    { BulkResponse(rs) :
        rs \in UNION { [1..n -> {Clear, Hit(<<Match(MidConfidence, "REJECT")>>)}]
                       : n \in 0..MaxResults } }

InitSelect ==
    /\ \E data \in ShortResponses \cup {LongResponse} : BulkLoaded(data)
    /\ file = AcceptedFile
    /\ healthStatus = [status |-> "healthy"]
    /\ activeTab = "bulk"
    /\ screeningLoading = FALSE /\ screeningResult = NULL /\ indivRequests = <<>>
    /\ bulkRequests = <<>> /\ reportRequests = <<>>
    /\ opened = NULL
    /\ csv = NULL
    /\ uiSteps = 0
    /\ NoServiceWorker
    /\ NoHost

\* The rows whose checkbox or "Ver" button is clicked: the first ones, and the
\* one that falls on the second page.
ClickedRows == (0..(MaxResults - 1)) \cup {DEFAULT_PAGE_SIZE}

\* One more click of the user.
UserStep ==
    /\ uiSteps < MaxUiSteps
    /\ uiSteps' = uiSteps + 1
    /\ UNCHANGED <<appVars, swVars, hostVars>>

NextSelect ==
    \/ \E k \in ClickedRows : toggleSelection(k) /\ UserStep
    \/ headerCheckbox /\ UserStep
    \/ selectAll /\ UserStep
    \/ selectAllHits /\ UserStep
    \/ clearSelection /\ UserStep
    \/ \E f \in Filters : handleFilterChange(f) /\ UserStep
    \/ \E n \in PAGE_SIZES : handlePageSizeChange(n) /\ UserStep
    \/ \E page \in 1..2 : setCurrentPage(page) /\ UserStep
    \/ \E k \in ClickedRows : viewReport(k) /\ UserStep
    \/ printSelected /\ UserStep
    \/ printAll /\ UserStep
    \/ \E i \in 1..MaxPendingReports, o \in Outcomes :
         reportSettles(i, o) /\ UNCHANGED <<appVars, uiSteps, swVars, hostVars>>

SpecSelect == InitSelect /\ [][NextSelect]_vars

-----------------------------------------------------------------------------
(* Claims on the selection runs *)

NewReportRequest == reportRequests'[Len(reportRequests')]

PrintSelectedStarted ==
    /\ Len(reportRequests') > Len(reportRequests)
    /\ NewReportRequest.caller = "printSelected"

\* The 1-based places of the selected results, and the k-th smallest of them.
SelectedPlaces == { i \in DOMAIN resultList : (i - 1) \in Range(selectedResults) }
PlaceOfRank(k) ==
    CHOOSE i \in SelectedPlaces : Cardinality({ j \in SelectedPlaces : j < i }) = k - 1

\* C7: printSelected sends to the bulk report exactly the selected results,
\* each once, in ascending order of their index in the response, whatever the
\* order of selection, the filter and the page; it sends nothing when the
\* selection is empty.
C7_PrintSelectedInInputOrder ==
    [][ PrintSelectedStarted =>
          /\ selectedResults # <<>>
          /\ NewReportRequest.endpoint = "generate-bulk"
          /\ NewReportRequest.payload =
                [k \in 1..Cardinality(SelectedPlaces) |-> resultList[PlaceOfRank(k)]] ]_vars

\* Two results selected in descending order of their index, then printed.
C7_Witness ==
    /\ Len(selectedResults) = 2
    /\ selectedResults[1] > selectedResults[2]
    /\ reportRequests # <<>>
    /\ reportRequests[1].caller = "printSelected"
    /\ Len(reportRequests[1].payload) = 2

\* C9: every page opened by viewReport, printSelected or printAll is the
\* html_content of the backend; none is built in the browser.
C9_OnlyBackendHTML == opened # NULL => opened.by = "backend"

-----------------------------------------------------------------------------
(* Service worker: the fetch listener *)

\* A cache name is the sequence of the pieces it is put together from, so
\* that name.startsWith(prefix) reads its first piece.
CACHE_VERSION == <<"sanctions-check-", "v1.0.0">>
STATIC_CACHE == CACHE_VERSION \o <<"-static">>
API_CACHE == CACHE_VERSION \o <<"-api">>
CacheNames == {STATIC_CACHE, API_CACHE}

\* A request: its method, whether its origin is location.origin, and the
\* segments of its pathname ('/api/v1/health' is <<"api", "v1", "health">>).
Request(method, sameOrigin, path) ==
    [method |-> method, sameOrigin |-> sameOrigin, path |-> path]

SwRequests ==
    { Request("GET", TRUE, <<"api", "v1", "health">>),
      Request("POST", TRUE, <<"api", "v1", "screen">>),
      Request("GET", FALSE, <<"data">>),
      Request("GET", TRUE, <<"index.html">>),
      Request("GET", TRUE, <<"api">>) }

Statuses == {200, 404, 500}

NetworkResponse(status, serial) == [kind |-> "response", status |-> status, serial |-> serial]
Rejected == [kind |-> "rejected", status |-> 0, serial |-> 0]

\* new Response(JSON.stringify({ error: 'No internet connection', ... }),
\*              { status: 503, ... })
OfflineResponse ==
    [ kind |-> "synthetic", status |-> 503, serial |-> 0,
      body |-> [error |-> "No internet connection"] ]

\* What cache.addAll stored for '/index.html' during install.
InstalledResponse == NetworkResponse(200, 0)

\* response.ok
ok(response) == response.status >= 200 /\ response.status <= 299

\* url.pathname.startsWith('/api/')
startsWithApi(path) == Len(path) >= 2 /\ path[1] = "api"

\* The network-first test of the listener, without the origin clause.
isNetworkFirst_pathOnly(request) == startsWithApi(request.path)

\* url.pathname.startsWith('/api/') || url.origin !== location.origin
isNetworkFirst(request) == startsWithApi(request.path) \/ ~request.sameOrigin

EmptyCache == [r \in SwRequests |-> NULL]

\* caches.match(request), changed to find nothing.
cachesMatch_miss(request) == NULL

\* caches.match(request): the first match over the caches in the order they
\* were created; only a GET request matches.
cachesMatch(request) ==
    IF request.method # "GET" THEN NULL
    ELSE IF swCaches[STATIC_CACHE][request] # NULL THEN swCaches[STATIC_CACHE][request]
    ELSE swCaches[API_CACHE][request]

\* An active worker: install has opened the static cache, and cache.addAll
\* has stored the assets or failed (which install catches).
ServiceWorkerActive ==
    /\ \E installed \in {NULL, InstalledResponse} :
         swCaches = [n \in CacheNames |->
                       IF n = STATIC_CACHE
                       THEN [EmptyCache EXCEPT ![Request("GET", TRUE, <<"index.html">>)] = installed]
                       ELSE EmptyCache]
    /\ swEvents = <<>>
    /\ swPuts = <<>>
    /\ swSerial = 0
    /\ swLifecycle = [state |-> "activated", keys |-> CacheNames, pending |-> {},
                      claimed |-> TRUE]

\* The listener up to its first await: fetch(request) on the network-first
\* branch, caches.match(request) on the other.
onFetch(request) ==
    /\ swLifecycle.state = "activated"
    /\ Len(swEvents) < MaxEvents
    /\ swEvents' = Append(swEvents,
          [ request |-> request,
            networkFirst |-> isNetworkFirst(request),
            pc |-> IF isNetworkFirst(request) THEN "fetch" ELSE "match",
            log |-> IF isNetworkFirst(request) THEN <<"fetch">> ELSE <<"match">>,
            network |-> NULL,
            reply |-> NULL ])
    /\ UNCHANGED <<swCaches, swPuts, swSerial>>

\* The caching of a response, changed to store it whatever its status.
putIfOk_always(name, request, response) ==
    Append(swPuts, [cache |-> name, request |-> request, response |-> response])

\* The caching of a response, changed to store nothing.
putIfOk_never(name, request, response) == swPuts

\* if (response.ok) caches.open(name).then(cache => cache.put(request, clone))
putIfOk(name, request, response) ==
    IF ok(response)
    THEN Append(swPuts, [cache |-> name, request |-> request, response |-> response])
    ELSE swPuts

\* fetch(request) resolves.
networkResponds(e, status) ==
    /\ e \in DOMAIN swEvents
    /\ swEvents[e].pc \in {"fetch", "revalidate"}
    /\ swSerial' = swSerial + 1
    /\ LET ev == swEvents[e]
           response == NetworkResponse(status, swSerial + 1)
       IN  /\ swEvents' =
                [swEvents EXCEPT ![e] =
                   [ev EXCEPT !.pc = "done", !.network = response,
                              !.reply = IF ev.pc = "fetch" THEN response ELSE ev.reply]]
           /\ swPuts' = putIfOk(IF ev.networkFirst THEN API_CACHE ELSE STATIC_CACHE,
                                ev.request, response)
    /\ UNCHANGED swCaches

\* fetch(request) rejects.
networkFails(e) ==
    /\ e \in DOMAIN swEvents
    /\ swEvents[e].pc \in {"fetch", "revalidate"}
    /\ LET ev == swEvents[e]
       IN  swEvents' =
             [swEvents EXCEPT ![e] =
                IF ev.networkFirst
                THEN [ev EXCEPT !.pc = "match", !.network = Rejected,
                                !.log = Append(ev.log, "match")]
                ELSE [ev EXCEPT !.pc = "done", !.network = Rejected,
                                !.reply = IF ev.pc = "fetch" THEN Rejected ELSE ev.reply]]
    /\ UNCHANGED <<swCaches, swPuts, swSerial>>

\* caches.match(request) resolves.
cacheMatched(e) ==
    /\ e \in DOMAIN swEvents
    /\ swEvents[e].pc = "match"
    /\ LET ev == swEvents[e]
           cached == cachesMatch(ev.request)
       IN  swEvents' =
             [swEvents EXCEPT ![e] =
                IF ev.networkFirst
                THEN [ev EXCEPT !.pc = "done",
                                !.reply = IF cached # NULL THEN cached ELSE OfflineResponse]
                ELSE IF cached # NULL
                THEN [ev EXCEPT !.pc = "revalidate", !.reply = cached,
                                !.log = Append(ev.log, "fetch")]
                ELSE [ev EXCEPT !.pc = "fetch", !.log = Append(ev.log, "fetch")]]
    /\ UNCHANGED <<swCaches, swPuts, swSerial>>

\* cache.put(request, response) settles; it rejects for a request that is
\* not a GET and stores nothing.
cachePut(i) ==
    /\ i \in DOMAIN swPuts
    /\ swPuts' = Remove(swPuts, i)
    /\ swCaches' =
         IF swPuts[i].request.method = "GET"
         THEN [swCaches EXCEPT ![swPuts[i].cache][swPuts[i].request] = swPuts[i].response]
         ELSE swCaches
    /\ UNCHANGED <<swEvents, swSerial>>

InitSW ==
    /\ ServiceWorkerActive
    /\ AppMounted
    /\ BulkMounted
    /\ bulkRequests = <<>> /\ reportRequests = <<>>
    /\ opened = NULL /\ csv = NULL
    /\ uiSteps = 0
    /\ NoHost

NextSW ==
    \/ \E request \in SwRequests : onFetch(request) /\ UNCHANGED <<pageVars, hostVars, swLifecycle>>
    \/ \E e \in 1..MaxEvents, status \in Statuses :
         networkResponds(e, status) /\ UNCHANGED <<pageVars, hostVars, swLifecycle>>
    \/ \E e \in 1..MaxEvents : networkFails(e) /\ UNCHANGED <<pageVars, hostVars, swLifecycle>>
    \/ \E e \in 1..MaxEvents : cacheMatched(e) /\ UNCHANGED <<pageVars, hostVars, swLifecycle>>
    \/ \E i \in 1..MaxEvents : cachePut(i) /\ UNCHANGED <<pageVars, hostVars, swLifecycle>>

SpecSW == InitSW /\ [][NextSW]_vars

-----------------------------------------------------------------------------
(* Claims on the service worker *)

\* The requests C10 speaks of: a path under /api/, or another origin.
ApiOrCrossOrigin(request) ==
    \/ (Len(request.path) >= 2 /\ request.path[1] = "api")
    \/ ~request.sameOrigin

\* C10: for a request under /api/ or of another origin the worker fetches
\* from the network before it reads a cache; when the fetch resolves, the
\* client gets that very response whatever its status; a cached (or made up)
\* response is given only after the fetch has failed.
C10_NetworkFirst ==
    \A e \in DOMAIN swEvents :
        LET ev == swEvents[e]
        IN  ApiOrCrossOrigin(ev.request) =>
              /\ ev.log[1] = "fetch"
              /\ (\E k \in DOMAIN ev.log : ev.log[k] = "match") => ev.network = Rejected
              /\ (ev.network # NULL /\ ev.network # Rejected) => ev.reply = ev.network
              /\ (ev.reply # NULL /\ ev.reply # ev.network) => ev.network = Rejected

\* A request answered by the network, then answered from the cache, after its
\* next fetch failed, with the response the first fetch had stored.
C10_Witness ==
    /\ Len(swEvents) = 2
    /\ ApiOrCrossOrigin(swEvents[1].request) /\ ApiOrCrossOrigin(swEvents[2].request)
    /\ swEvents[1].network.kind = "response" /\ swEvents[1].reply = swEvents[1].network
    /\ swEvents[2].network = Rejected /\ swEvents[2].reply = swEvents[1].network

\* What the caches hold for a request.
CachedEntries(request) ==
    { swCaches[n][request] : n \in DOMAIN swCaches } \ {NULL}

\* Event e gets its answer in this step.
Answered(e) == swEvents[e].reply = NULL /\ swEvents'[e].reply # NULL

\* C11: when the network fetch of a request under /api/ or of another origin
\* fails, the answer is the cached response for that request if there is one
\* and the synthetic 503 'No internet connection' otherwise; the promise given
\* to respondWith is never rejected for such a request.
C11_OfflineFallback ==
    [][ \A e \in DOMAIN swEvents :
          LET ev == swEvents[e]
          IN  ApiOrCrossOrigin(ev.request) =>
                /\ ev.reply # Rejected
                /\ swEvents'[e].reply # Rejected
                /\ (ev.network = Rejected /\ Answered(e)) =>
                      IF CachedEntries(ev.request) # {}
                      THEN swEvents'[e].reply \in CachedEntries(ev.request)
                      ELSE /\ swEvents'[e].reply.status = 503
                           /\ swEvents'[e].reply.body.error = "No internet connection" ]_vars

\* A POST under /api/ whose fetch failed is answered with the synthetic 503
\* while the cache holds the response of an earlier GET.
C11_Witness ==
    /\ Len(swEvents) = 2
    /\ swEvents[1].request.method = "GET" /\ ApiOrCrossOrigin(swEvents[1].request)
    /\ swCaches[API_CACHE][swEvents[1].request] = swEvents[1].network
    /\ swEvents[2].request.method = "POST"
    /\ swEvents[2].network = Rejected
    /\ swEvents[2].reply = OfflineResponse

\* The requests C12 speaks of.
SameOriginNonApi(request) ==
    request.sameOrigin /\ ~(Len(request.path) >= 2 /\ request.path[1] = "api")

\* The background fetch of event e settles in this step.
Revalidated(e) == swEvents[e].pc = "revalidate" /\ swEvents'[e].pc = "done"

\* C12: a same-origin request outside /api/ with a cached match is answered
\* with the cached response before any fetch settles, and a background fetch
\* is started; an ok response of that fetch is put in the static cache in
\* place of the entry; a failed or non-ok fetch leaves the caches alone; the
\* answer already given never changes.
C12_CacheFirst ==
    [][ /\ \A e \in DOMAIN swEvents :
             LET ev == swEvents[e]
                 after == swEvents'[e]
             IN  SameOriginNonApi(ev.request) =>
                   /\ (ev.pc = "match" /\ CachedEntries(ev.request) # {} /\ after # ev) =>
                         /\ after.reply \in CachedEntries(ev.request)
                         /\ after.network = NULL
                         /\ after.pc = "revalidate"
                   /\ Revalidated(e) =>
                         /\ after.reply = ev.reply
                         /\ UNCHANGED swCaches
                         /\ IF after.network # Rejected /\ after.network.status \in 200..299
                            THEN swPuts' = Append(swPuts,
                                    [ cache |-> STATIC_CACHE, request |-> ev.request,
                                      response |-> after.network ])
                            ELSE UNCHANGED swPuts
        /\ \A i \in DOMAIN swPuts :
             (swPuts' = Remove(swPuts, i) /\ SameOriginNonApi(swPuts[i].request)
                 /\ swPuts[i].request.method = "GET") =>
                  \/ swCaches'[swPuts[i].cache][swPuts[i].request] = swPuts[i].response
                  \/ \E j \in DOMAIN swPuts :
                       /\ j # i /\ swPuts' = Remove(swPuts, j)
                       /\ swCaches'[swPuts[j].cache][swPuts[j].request] = swPuts[j].response
      ]_vars

\* '/index.html' was answered from the cache, refreshed in the background,
\* and the next request for it is answered with the refreshed response.
C12_Witness ==
    /\ Len(swEvents) = 2
    /\ swEvents[1].request = swEvents[2].request
    /\ SameOriginNonApi(swEvents[1].request)
    /\ swEvents[1].reply = InstalledResponse
    /\ swEvents[1].network.kind = "response"
    /\ swEvents[2].reply = swEvents[1].network

-----------------------------------------------------------------------------
(* Service worker: the activate listener *)

\* name.startsWith('sanctions-check-')
startsWithAppPrefix(name) == name[1] = "sanctions-check-"

\* Caches that can be in CacheStorage when the worker is activated: the API
\* cache of this version, the caches of an earlier version, a cache named
\* after the static one, and caches of other code of the origin.
OtherCacheNames ==
    { API_CACHE,
      <<"sanctions-check-", "v0.9.0", "-static">>,
      <<"sanctions-check-", "v0.9.0", "-api">>,
      <<"sanctions-check-", "v1.0.0", "-static", "-old">>,
      <<"sanctions-checker-", "v1">>,
      <<"workbox-", "precache">> }

\* The activate filter, changed to spare only the static cache.
isOldCache_apiToo(name) == startsWithAppPrefix(name) /\ name # STATIC_CACHE

\* name.startsWith('sanctions-check-') && name !== STATIC_CACHE && name !== API_CACHE
isOldCache(name) ==
    startsWithAppPrefix(name) /\ name # STATIC_CACHE /\ name # API_CACHE

\* After install: the static cache has been opened, the other caches are
\* what earlier runs left.
ServiceWorkerInstalled ==
    /\ \E others \in SUBSET OtherCacheNames, installed \in {NULL, InstalledResponse} :
         swCaches = [n \in {STATIC_CACHE} \cup others |->
                       [EmptyCache EXCEPT ![Request("GET", TRUE, <<"index.html">>)] =
                           IF n = API_CACHE THEN NULL ELSE installed]]
    /\ swEvents = <<>>
    /\ swPuts = <<>>
    /\ swSerial = 0
    /\ swLifecycle = [state |-> "installed", keys |-> {}, pending |-> {}, claimed |-> FALSE]

\* The activate listener: caches.keys() and the caches.delete calls it starts.
onActivate ==
    /\ swLifecycle.state = "installed"
    /\ swLifecycle' = [ state |-> "activating", keys |-> DOMAIN swCaches,
                        pending |-> { name \in DOMAIN swCaches : isOldCache(name) },
                        claimed |-> FALSE ]
    /\ UNCHANGED <<swCaches, swEvents, swPuts, swSerial>>

\* caches.delete(name) resolves.
cacheDeleted(name) ==
    /\ swLifecycle.state = "activating"
    /\ name \in swLifecycle.pending
    /\ swCaches' = [n \in DOMAIN swCaches \ {name} |-> swCaches[n]]
    /\ swLifecycle' = [swLifecycle EXCEPT !.pending = @ \ {name}]
    /\ UNCHANGED <<swEvents, swPuts, swSerial>>

\* Promise.all has resolved: .then(() => self.clients.claim())
claimClients ==
    /\ swLifecycle.state = "activating"
    /\ swLifecycle.pending = {}
    /\ swLifecycle' = [swLifecycle EXCEPT !.state = "activated", !.claimed = TRUE]
    /\ UNCHANGED <<swCaches, swEvents, swPuts, swSerial>>

InitActivate ==
    /\ ServiceWorkerInstalled
    /\ AppMounted
    /\ BulkMounted
    /\ bulkRequests = <<>> /\ reportRequests = <<>>
    /\ opened = NULL /\ csv = NULL
    /\ uiSteps = 0
    /\ NoHost

NextActivate ==
    \/ onActivate /\ UNCHANGED <<pageVars, hostVars>>
    \/ \E name \in OtherCacheNames : cacheDeleted(name) /\ UNCHANGED <<pageVars, hostVars>>
    \/ claimClients /\ UNCHANGED <<pageVars, hostVars>>

SpecActivate == InitActivate /\ [][NextActivate]_vars

\* The caches C13 wants gone: named 'sanctions-check-...' and not one of the
\* two caches of this version.
Outdated(name) ==
    /\ name[1] = "sanctions-check-"
    /\ name # <<"sanctions-check-", "v1.0.0", "-static">>
    /\ name # <<"sanctions-check-", "v1.0.0", "-api">>

\* C13: activation deletes every cache named 'sanctions-check-...' other than
\* the current static and API caches, leaves those two and every cache of
\* another name as they are, and claims the clients only when no outdated
\* cache is left.
C13_ActivateCleansOldCaches ==
    [][ /\ \A name \in DOMAIN swCaches :
             ~Outdated(name) =>
                 name \in DOMAIN swCaches' /\ swCaches'[name] = swCaches[name]
        /\ swLifecycle'.claimed =>
             /\ \A name \in DOMAIN swCaches : ~Outdated(name)
             /\ \A name \in DOMAIN swCaches' : ~Outdated(name) ]_vars

\* Clients claimed after a cleanup that removed an old cache and kept the
\* API cache and a cache of other code.
C13_Witness ==
    /\ swLifecycle.claimed
    /\ <<"sanctions-check-", "v0.9.0", "-static">> \in swLifecycle.keys
    /\ <<"sanctions-check-", "v1.0.0", "-static", "-old">> \in swLifecycle.keys
    /\ DOMAIN swCaches = {STATIC_CACHE, API_CACHE, <<"workbox-", "precache">>}

-----------------------------------------------------------------------------
(* utils/platform.js *)

\* A JavaScript value of window.electron: absent, set by other code, or the
\* object the preload script exposes.
JsValue(type, value) == [type |-> type, value |-> value]
Undefined == JsValue("undefined", "undefined")
PreloadObject == JsValue("object", "{platform, versions}")

ElectronValues ==
    { Undefined, JsValue("null", "null"), JsValue("boolean", "false"),
      JsValue("number", "0"), JsValue("string", ""), JsValue("object", "{}"),
      PreloadObject }

\* !!value
toBoolean(v) ==
    CASE v.type \in {"undefined", "null"} -> FALSE
      [] v.type = "boolean" -> v.value = "true"
      [] v.type = "number" -> v.value \notin {"0", "NaN"}
      [] v.type = "string" -> v.value # ""
      [] OTHER -> TRUE

isElectron == toBoolean(pwaBrowser.electron)

\* window.matchMedia('(display-mode: standalone)').matches
isPWA == pwaBrowser.standalone

\* getPlatform, changed to look at the display mode first.
getPlatform_pwaFirst ==
    IF isPWA THEN "PWA" ELSE IF isElectron THEN "DESKTOP" ELSE "WEB"

getPlatform ==
    IF isElectron THEN "DESKTOP" ELSE IF isPWA THEN "PWA" ELSE "WEB"

\* names[platform] || 'Unknown'
getPlatformName ==
    CASE getPlatform = "DESKTOP" -> "Desktop"
      [] getPlatform = "PWA" -> "Progressive Web App"
      [] getPlatform = "WEB" -> "Web"
      [] OTHER -> "Unknown"

-----------------------------------------------------------------------------
(* components/InstallPWA.js *)

\* What the window saw last.
Happened(what) == [pwaBrowser EXCEPT !.last = what]

\* The mount effect, changed to register its listeners without the look at
\* sessionStorage.
registersListeners_ignoringDismissal(standalone, dismissed) == ~standalone

\* if (isPWA()) return; if (dismissed) { setShowBanner(false); return; }
\* otherwise both listeners are registered.
registersListeners(standalone, dismissed) == ~standalone /\ ~dismissed

\* useState initial values and the effect of the mount.
InstallPWAMounted(standalone, dismissed) ==
    [ deferredPrompt |-> NULL,
      showBanner |-> FALSE,
      promptListener |-> registersListeners(standalone, dismissed),
      installedListener |-> registersListeners(standalone, dismissed),
      mountedStandalone |-> standalone,
      mountedDismissed |-> dismissed ]

\* A window that has just loaded the page.
WindowLoaded(electron, standalone, dismissed) ==
    [ electron |-> electron, standalone |-> standalone, dismissed |-> dismissed,
      fired |-> 0, clicks |-> 0, prompts |-> <<>>, awaiting |-> <<>>, last |-> "load" ]

\* if (!showBanner || !deferredPrompt) return null; else the banner.
render ==
    IF ~installPWA.showBanner \/ installPWA.deferredPrompt = NULL
    THEN "null" ELSE "banner"

\* The browser fires beforeinstallprompt (it does so only outside the
\* installed app); handleBeforeInstallPrompt runs if it is registered.
beforeInstallPrompt ==
    /\ ~pwaBrowser.standalone
    /\ pwaBrowser.electron # PreloadObject
    /\ pwaBrowser.fired < MaxPromptEvents
    /\ pwaBrowser' = [Happened("beforeinstallprompt") EXCEPT
                        !.fired = @ + 1, !.prompts = Append(@, 0)]
    /\ installPWA' =
         IF installPWA.promptListener
         THEN [installPWA EXCEPT !.deferredPrompt = [event |-> pwaBrowser.fired + 1],
                                 !.showBanner = TRUE]
         ELSE installPWA
    /\ UNCHANGED platformInfo

\* The browser fires appinstalled.
appInstalled ==
    /\ pwaBrowser' = Happened("appinstalled")
    /\ installPWA' =
         IF installPWA.installedListener
         THEN [installPWA EXCEPT !.showBanner = FALSE, !.deferredPrompt = NULL]
         ELSE installPWA
    /\ UNCHANGED platformInfo

\* The "Install" button: prompt(), then the await of userChoice.
handleInstallClick ==
    /\ render = "banner"
    /\ pwaBrowser.clicks < MaxClicks
    /\ LET e == installPWA.deferredPrompt.event
       IN  pwaBrowser' = [Happened("install-click") EXCEPT
                            !.clicks = @ + 1,
                            !.prompts[e] = @ + 1,
                            !.awaiting = Append(@, e)]
    /\ UNCHANGED <<installPWA, platformInfo>>

\* userChoice has resolved (with either outcome) and a waiting
\* handleInstallClick goes on.
userChoiceResolved(outcome) ==
    /\ pwaBrowser.awaiting # <<>>
    /\ pwaBrowser' = [Happened(outcome) EXCEPT !.awaiting = Tail(@)]
    /\ installPWA' = [installPWA EXCEPT !.deferredPrompt = NULL, !.showBanner = FALSE]
    /\ UNCHANGED platformInfo

\* The "Not Now" button.
handleDismiss ==
    /\ render = "banner"
    /\ installPWA' = [installPWA EXCEPT !.showBanner = FALSE]
    /\ pwaBrowser' = [Happened("dismiss") EXCEPT !.dismissed = TRUE]
    /\ UNCHANGED platformInfo

\* The window moves into or out of the installed app.
displayModeChanges ==
    /\ ~toBoolean(pwaBrowser.electron)
    /\ pwaBrowser' = [Happened("display-mode") EXCEPT !.standalone = ~@]
    /\ UNCHANGED <<installPWA, platformInfo>>

\* The page is loaded again, in the same session or (sessionStorage empty)
\* in a new one.
pageLoad(newSession) ==
    LET dismissed == IF newSession THEN FALSE ELSE pwaBrowser.dismissed
    IN  /\ pwaBrowser' = WindowLoaded(pwaBrowser.electron, pwaBrowser.standalone, dismissed)
        /\ installPWA' = InstallPWAMounted(pwaBrowser.standalone, dismissed)
        /\ platformInfo' = NULL

\* A caller asks for the platform and its name.
askPlatform ==
    /\ platformInfo' = [ electron |-> pwaBrowser.electron,
                         standalone |-> pwaBrowser.standalone,
                         platform |-> getPlatform, name |-> getPlatformName ]
    /\ UNCHANGED <<installPWA, pwaBrowser>>

\* The page, idle, beside the part a run is about.
PageIdle ==
    /\ AppMounted
    /\ BulkMounted
    /\ bulkRequests = <<>> /\ reportRequests = <<>>
    /\ opened = NULL /\ csv = NULL
    /\ uiSteps = 0

InitInstall ==
    /\ \E electron \in ElectronValues, standalone \in BOOLEAN, dismissed \in BOOLEAN :
         /\ (electron = PreloadObject => ~standalone)
         /\ pwaBrowser = WindowLoaded(electron, standalone, dismissed)
         /\ installPWA = InstallPWAMounted(standalone, dismissed)
    /\ platformInfo = NULL
    /\ desktop = NULL
    /\ PageIdle
    /\ NoServiceWorker

NextInstall ==
    \/ beforeInstallPrompt /\ UNCHANGED <<pageVars, swVars, desktopVars>>
    \/ appInstalled /\ UNCHANGED <<pageVars, swVars, desktopVars>>
    \/ handleInstallClick /\ UNCHANGED <<pageVars, swVars, desktopVars>>
    \/ \E outcome \in {"accepted", "dismissed"} :
         userChoiceResolved(outcome) /\ UNCHANGED <<pageVars, swVars, desktopVars>>
    \/ handleDismiss /\ UNCHANGED <<pageVars, swVars, desktopVars>>
    \/ displayModeChanges /\ UNCHANGED <<pageVars, swVars, desktopVars>>
    \/ \E newSession \in BOOLEAN :
         pageLoad(newSession) /\ UNCHANGED <<pageVars, swVars, desktopVars>>
    \/ askPlatform /\ UNCHANGED <<pageVars, swVars, desktopVars>>

SpecInstall == InitInstall /\ [][NextInstall]_vars

-----------------------------------------------------------------------------
(* Claims on InstallPWA and the platform *)

\* C14: the banner is drawn only while showBanner holds and a deferred
\* beforeinstallprompt event is kept; a mount in the installed app or with
\* the session flag set registers no listener and never draws the banner;
\* right after appinstalled the banner is hidden and the deferred prompt gone.
C14_BannerOnlyWhenInstallable ==
    /\ render = "banner" => installPWA.showBanner /\ installPWA.deferredPrompt # NULL
    /\ (installPWA.mountedStandalone \/ installPWA.mountedDismissed) =>
          /\ ~installPWA.promptListener /\ ~installPWA.installedListener
          /\ render = "null"
    /\ pwaBrowser.last = "appinstalled" =>
          render = "null" /\ installPWA.deferredPrompt = NULL

\* A page loaded with the session flag set has seen a beforeinstallprompt.
C14_Witness ==
    /\ installPWA.mountedDismissed /\ ~installPWA.mountedStandalone
    /\ pwaBrowser.fired > 0
    /\ pwaBrowser.last = "beforeinstallprompt"

\* C15: once the banner has been dismissed it is not drawn again in the
\* session, whatever beforeinstallprompt events follow.
C15_DismissedForSession == pwaBrowser.dismissed => render = "null"

\* window.electron values that are falsy in JavaScript.
FalsyElectron ==
    { JsValue("undefined", "undefined"), JsValue("null", "null"),
      JsValue("boolean", "false"), JsValue("number", "0"), JsValue("string", "") }

\* C16: getPlatform answers DESKTOP exactly when window.electron is truthy
\* (standalone or not), PWA exactly when it is falsy and the display mode is
\* standalone, WEB otherwise; with the object of the preload script it
\* answers DESKTOP; getPlatformName never answers 'Unknown'.
C16_PlatformTotal ==
    platformInfo # NULL =>
      /\ platformInfo.platform \in {"DESKTOP", "PWA", "WEB"}
      /\ (platformInfo.platform = "DESKTOP") = (platformInfo.electron \notin FalsyElectron)
      /\ (platformInfo.platform = "PWA") =
            (platformInfo.electron \in FalsyElectron /\ platformInfo.standalone)
      /\ platformInfo.electron = PreloadObject => platformInfo.platform = "DESKTOP"
      /\ platformInfo.name \in {"Desktop", "Progressive Web App", "Web"}

\* window.electron is truthy in a standalone window: DESKTOP.
C16_Witness ==
    /\ platformInfo # NULL
    /\ platformInfo.electron = JsValue("object", "{}")
    /\ platformInfo.standalone
    /\ platformInfo.platform = "DESKTOP"

\* C30: prompt() is called at most once on each captured beforeinstallprompt
\* event, also when "Install" is clicked again before userChoice has
\* resolved; once userChoice has resolved, with either outcome, the
\* deferred prompt is null and the banner is hidden.
C30_PromptOncePerEvent ==
    /\ [](\A e \in DOMAIN pwaBrowser.prompts : pwaBrowser.prompts[e] <= 1)
    /\ [][ Len(pwaBrowser'.awaiting) < Len(pwaBrowser.awaiting)
              /\ pwaBrowser'.last \in {"accepted", "dismissed"}
           => installPWA'.deferredPrompt = NULL /\ ~installPWA'.showBanner ]_vars

-----------------------------------------------------------------------------
(* electron/main.js: the window of the desktop application *)

\* A URL as new URL(...) parses it: its protocol and its origin (the origin
\* of a file: URL, and of a blob: URL made by a file: page, is "null").
Url(protocol, origin) == [protocol |-> protocol, origin |-> origin]
DevServerOrigin == "http://localhost:3000"
DefaultApiOrigin == "https://your-backend.up.railway.app"
CustomApiOrigin == "https://api.example.com"
FileUrl == Url("file:", "null")
DevServerUrl == Url("http:", DevServerOrigin)
ExternalUrl == Url("https:", "https://example.org")
BlobUrl(isDev) == Url("blob:", IF isDev THEN DevServerOrigin ELSE "null")

NavigationUrls ==
    { FileUrl, DevServerUrl, ExternalUrl,
      Url("https:", DefaultApiOrigin), Url("https:", CustomApiOrigin) }

\* process.env.REACT_APP_API_URL: unset, a URL, or text that is no URL.
ApiUrlSettings == {"", CustomApiOrigin, "not a url"}

\* new URL(origin).origin, or "TypeError" where new URL throws.
originOf(text) == IF text = "not a url" THEN "TypeError" ELSE text

\* ['http://localhost:3000', process.env.REACT_APP_API_URL || default]
allowedOrigins ==
    << DevServerOrigin,
       IF desktop.apiUrl = "" THEN DefaultApiOrigin ELSE desktop.apiUrl >>

\* allowedOrigins.some(origin => parsedUrl.origin === new URL(origin).origin),
\* false where new URL throws.
isAllowed(parsedUrl) ==
    \E k \in DOMAIN allowedOrigins :
        /\ originOf(allowedOrigins[k]) # "TypeError"
        /\ parsedUrl.origin = originOf(allowedOrigins[k])

\* The will-navigate listener: TRUE when it calls event.preventDefault().
preventsNavigation(parsedUrl) ==
    IF ~desktop.isDev /\ parsedUrl.protocol = "file:" THEN FALSE
    ELSE IF desktop.isDev /\ parsedUrl.origin = DevServerOrigin THEN FALSE
    ELSE ~isAllowed(parsedUrl)

\* A window-open handler that lets the blob: URLs of the reports through.
windowOpenHandler_allowBlob(url) ==
    [action |-> IF url.protocol = "blob:" THEN "allow" ELSE "deny"]

\* setWindowOpenHandler(({ url }) => { ...; return { action: 'deny' }; })
windowOpenHandler(url) == [action |-> "deny"]

\* createWindow has run without throwing: the window shows the page.
WindowCreated(isDev, platform, apiUrl) ==
    [ isDev |-> isDev, platform |-> platform, apiUrl |-> apiUrl,
      mainWindow |-> "window", running |-> TRUE,
      navigation |-> NULL, open |-> NULL ]

InWindow == desktop.mainWindow = "window"

\* The renderer is about to navigate to navigationUrl; the window keeps the
\* last decision of the listener.
willNavigate(navigationUrl) ==
    /\ InWindow
    /\ desktop' = [desktop EXCEPT !.navigation =
            [url |-> navigationUrl, prevented |-> preventsNavigation(navigationUrl)]]

\* window.open(url) in the renderer: the handler decides; the content the
\* caller meant to show is kept with the decision.
windowOpen(url, content) ==
    desktop' = [desktop EXCEPT !.open =
        [url |-> url, action |-> windowOpenHandler(url).action, content |-> content]]

\* A link or script of the page asks for a new window.
windowOpenRequested(url) ==
    /\ InWindow
    /\ windowOpen(url, NULL)

\* The rest of viewReport / printSelected / printAll in the desktop window:
\* window.open of the blob URL goes through the window-open handler.
reportSettlesInElectron(i, outcome) ==
    /\ InWindow
    /\ i \in DOMAIN reportRequests
    /\ LET html == reportHTML(reportRequests[i], outcome)
           url == BlobUrl(desktop.isDev)
       IN  /\ windowOpen(url, html)
           /\ opened' = IF windowOpenHandler(url).action = "allow" THEN html ELSE opened
    /\ reportRequests' = Remove(reportRequests, i)
    /\ UNCHANGED <<bulkVars, bulkRequests, csv>>

\* mainWindow.on('closed') and app.on('window-all-closed').
windowClosed ==
    /\ InWindow
    /\ desktop' = [desktop EXCEPT !.mainWindow = "null",
                                  !.running = (desktop.platform = "darwin")]

\* The screening shown in the window: a clear record and a hit.
DesktopResponse == BulkResponse(<<Clear, Hit(<<Match(MidConfidence, "REJECT")>>)>>)

InitDesktop ==
    /\ \E isDev \in BOOLEAN, platform \in {"darwin", "linux"}, apiUrl \in ApiUrlSettings :
         desktop = WindowCreated(isDev, platform, apiUrl)
    /\ installPWA = NULL /\ pwaBrowser = NULL /\ platformInfo = NULL
    /\ BulkLoaded(DesktopResponse)
    /\ file = AcceptedFile
    /\ healthStatus = [status |-> "healthy"]
    /\ activeTab = "bulk"
    /\ screeningLoading = FALSE /\ screeningResult = NULL /\ indivRequests = <<>>
    /\ bulkRequests = <<>> /\ reportRequests = <<>>
    /\ opened = NULL
    /\ csv = NULL
    /\ uiSteps = 0
    /\ NoServiceWorker

NextDesktop ==
    \/ \E url \in NavigationUrls :
         willNavigate(url) /\ UNCHANGED <<pageVars, swVars, pwaVars>>
    \/ \E url \in NavigationUrls \cup {BlobUrl(desktop.isDev)} :
         windowOpenRequested(url) /\ UNCHANGED <<pageVars, swVars, pwaVars>>
    \/ windowClosed /\ UNCHANGED <<pageVars, swVars, pwaVars>>
    \/ InWindow /\ selectAll /\ UserStep
    \/ InWindow /\ (\E k \in 0..1 : viewReport(k)) /\ UserStep
    \/ InWindow /\ printSelected /\ UserStep
    \/ InWindow /\ printAll /\ UserStep
    \/ \E i \in 1..MaxPendingReports, o \in Outcomes :
         reportSettlesInElectron(i, o) /\ UNCHANGED <<appVars, uiSteps, swVars, pwaVars>>

SpecDesktop == InitDesktop /\ [][NextDesktop]_vars

-----------------------------------------------------------------------------
(* Claims on the desktop window *)

C18_EveryWindowOpenDenied ==
    desktop.open # NULL => desktop.open.action = "deny"

\* A production window has been asked for the blob: URL of a report.
C18_Witness ==
    /\ ~desktop.isDev
    /\ desktop.open # NULL
    /\ desktop.open.url.protocol = "blob:"
    /\ desktop.open.content # NULL
    /\ desktop.open.action = "deny"

\* C19: in the desktop window viewReport, printSelected and printAll end
\* with the report shown in a window, as in the browser.
C19_ReportShownInDesktop ==
    (desktop.open # NULL /\ desktop.open.content # NULL) =>
        opened = desktop.open.content

-----------------------------------------------------------------------------
(* Claim on the choice of a file *)

\* A file the claim calls acceptable: a name ending in '.csv' and at most
\* 10 * 1024 * 1024 bytes.
Acceptable(f) == f.name[Len(f.name)] = ".csv" /\ f.size <= 10 * 1024 * 1024

\* C20: a file chosen or dropped is accepted exactly when its name ends with
\* '.csv' and its size is at most 10*1024*1024 bytes; a rejected file only
\* sets the error and leaves file, results, selectedResults and currentPage
\* as they were; an accepted one becomes the file, clears error, results and
\* selection and puts currentPage back to 1.
C20_FileValidation ==
    [][ \A f \in Files :
          (activeTab = "bulk" /\ (handleFileChange(f) \/ handleDrop(f))) =>
            IF Acceptable(f)
            THEN /\ file' = f
                 /\ error' = NoError
                 /\ results' = NULL
                 /\ selectedResults' = <<>>
                 /\ currentPage' = 1
            ELSE /\ error' # NoError
                 /\ UNCHANGED <<file, results, selectedResults, currentPage>> ]_vars

\* The file of exactly 10 MB was accepted and has stayed selected through
\* the drop of a file that was refused for its size.
C20_Witness ==
    /\ file = File("b", ".csv", MaxFileSize)
    /\ error = "too_big"

-----------------------------------------------------------------------------
(* Claim on records whose screening failed *)

\* C21: a result marked with an error is never presented as a clear one:
\* its table row is not 'OK' with 'APROBAR', and its line of the CSV export
\* is not 'LIMPIO' with APPROVE.
C21_ErrorNotShownClear ==
    results # NULL =>
        \A i \in DOMAIN results.results :
            "error" \in DOMAIN results.results[i] =>
                /\ ~( rowStatus(results.results[i]) = "OK"
                      /\ TableRows[i].text = "APROBAR" )
                /\ csv # NULL =>
                     ~( csv.rows[i].resultado = "LIMPIO"
                        /\ csv.rows[i].recommendation = "APPROVE" )

-----------------------------------------------------------------------------
(* Claims on the requests of a bulk submission *)

\* C22: results only ever becomes the response of a request that was sent
\* with the file now selected: a response that arrives after handleClear or
\* after another file was accepted is not shown.
C22_ResultsOfCurrentFile ==
    [][ (results' # NULL /\ results' # results) =>
          \E i \in DOMAIN bulkRequests :
             /\ bulkRequests' = Remove(bulkRequests, i)
             /\ bulkRequests[i].file = file' ]_vars

\* C23: at most one bulk screening request is in flight at any time.
C23_OneRequestInFlight == Len(bulkRequests) <= 1

-----------------------------------------------------------------------------
(* The submission runs with requests that settle *)

\* The fetch of a bulk request settles: some request in flight gets its
\* outcome.
bulkRequestSettles ==
    \E i \in 1..MaxInFlight, o \in Outcomes :
      \E data \in (IF o = "ok" THEN SubmitResponses ELSE {NULL}) :
        submitSettles(i, o, data) /\ UNCHANGED <<appVars, uiSteps, swVars, hostVars>>

NextSettling ==
    \/ \E h \in HealthValues : handleHealthUpdate(h) /\ UNCHANGED <<uiSteps, swVars, hostVars>>
    \/ \E t \in Tabs : setActiveTab(t) /\ UNCHANGED <<uiSteps, swVars, hostVars>>
    \/ \E f \in Files :
         activeTab = "bulk" /\ handleFileChange(f) /\ UNCHANGED <<appVars, uiSteps, swVars, hostVars>>
    \/ \E f \in Files :
         activeTab = "bulk" /\ handleDrop(f) /\ UNCHANGED <<appVars, uiSteps, swVars, hostVars>>
    \/ activeTab = "bulk" /\ handleSubmit /\ UNCHANGED <<appVars, uiSteps, swVars, hostVars>>
    \/ activeTab = "bulk" /\ handleClear /\ UNCHANGED <<appVars, uiSteps, swVars, hostVars>>
    \/ bulkRequestSettles

SpecSettling == Init /\ [][NextSettling]_vars /\ WF_vars(bulkRequestSettles)

\* The request of the mounted component that has not settled yet.
OwnRequestInFlight == \E i \in DOMAIN bulkRequests : bulkRequests[i].live

\* C24: loading is true exactly while a request of the component is in
\* flight, whatever the outcome of the earlier ones, and, requests settling
\* eventually, loading always becomes false again.
C24_LoadingFollowsRequest ==
    /\ [](loading <=> OwnRequestInFlight)
    /\ (loading ~> ~loading)

\* A failed submission has settled: loading is off and nothing is in flight.
C24_Witness ==
    /\ error # NoError
    /\ ~loading
    /\ bulkRequests = <<>>
    /\ file # NULL

-----------------------------------------------------------------------------
(* The individual screening runs: App with both tabs, every response of
   POST /api/v1/screen, no bulk submission *)

InitIndividual == Init

NextIndividual ==
    \/ \E h \in HealthValues : handleHealthUpdate(h) /\ UNCHANGED <<uiSteps, swVars, hostVars>>
    \/ \E t \in Tabs : setActiveTab(t) /\ UNCHANGED <<uiSteps, swVars, hostVars>>
    \/ ScreeningFormSubmit /\ UNCHANGED <<uiSteps, swVars, hostVars>>
    \/ \E r \in IndividualResponses :
         individualSettles(r) /\ UNCHANGED <<uiSteps, swVars, hostVars>>
    \/ \E f \in Files :
         activeTab = "bulk" /\ handleFileChange(f) /\ UNCHANGED <<appVars, uiSteps, swVars, hostVars>>
    \/ \E f \in Files :
         activeTab = "bulk" /\ handleDrop(f) /\ UNCHANGED <<appVars, uiSteps, swVars, hostVars>>
    \/ activeTab = "bulk" /\ handleClear /\ UNCHANGED <<appVars, uiSteps, swVars, hostVars>>

SpecIndividual == InitIndividual /\ [][NextIndividual]_vars

\* The message the claim gives a non-2xx response: detail or message, else
\* the text of the response, else the status message.
ClaimedMessage(response) ==
    IF response.body.kind = "json" /\ response.body.detail # "" THEN <<response.body.detail>>
    ELSE IF response.body.kind = "json" /\ response.body.message # "" THEN <<response.body.message>>
    ELSE IF response.body.kind # "unreadable" /\ response.body.text # "" THEN <<response.body.text>>
    ELSE <<"Error del servidor", response.status>>

\* The message as the code derives it: the text of the response is used only
\* when the body is not JSON.
AmendedMessage(response) ==
    IF response.body.kind = "json"
    THEN IF response.body.detail # "" THEN <<response.body.detail>>
         ELSE IF response.body.message # "" THEN <<response.body.message>>
         ELSE <<"Error del servidor", response.status>>
    ELSE IF response.body.kind = "text" /\ response.body.text # "" THEN <<response.body.text>>
    ELSE <<"Error del servidor", response.status>>

\* What both readings share: nothing is shown and loading is on while the
\* request is pending; when it settles loading is off and screeningResult is
\* the parsed body of a 2xx response, else an error object, which carries
\* the network message when fetch fails and Message(r) for a non-2xx response.
SettledAsClaimed(Message(_)) ==
    \A r \in IndividualResponses :
        individualSettles(r) =>
            /\ screeningLoading /\ screeningResult = NULL
            /\ ~screeningLoading'
            /\ screeningResult' # NULL
            /\ IF r.kind = "rejected"
               THEN screeningResult' = [kind |-> "error", error |-> <<"Error de red">>]
               ELSE IF r.status = 200
               THEN r.body.kind = "json" => screeningResult' = [kind |-> "screening_result"]
               ELSE screeningResult' = [kind |-> "error", error |-> Message(r)]

-----------------------------------------------------------------------------
(* Claim on what the fetch listener stores *)

\* C26: no response that is not ok (status outside 200..299) is put, or about
\* to be put, in the static or the API cache by the fetch listener, on any of
\* its branches.
C26_OnlyOkCached ==
    /\ \A i \in DOMAIN swPuts :
         swPuts[i].response.status >= 200 /\ swPuts[i].response.status <= 299
    /\ \A n \in DOMAIN swCaches : \A r \in SwRequests :
         swCaches[n][r] # NULL =>
            swCaches[n][r].status >= 200 /\ swCaches[n][r].status <= 299

\* An API request answered 200 is in the API cache; the next fetch of it was
\* answered 500, which went to the client and left the entry as it was.
C26_Witness ==
    /\ Len(swEvents) = 2
    /\ swEvents[1].request = swEvents[2].request
    /\ swEvents[1].networkFirst
    /\ swEvents[2].pc = "done" /\ swEvents[2].reply.status = 500
    /\ swPuts = <<>>
    /\ swCaches[API_CACHE][swEvents[1].request] = swEvents[1].network

-----------------------------------------------------------------------------
(* Service worker, later version (PR_SUMMARY.md): the install listener *)

CRITICAL_ASSETS == {<<>>, <<"index.html">>, <<"offline.html">>}
OPTIONAL_ASSETS == {<<"icon.png">>, <<"Panama.avif">>}
Assets == CRITICAL_ASSETS \cup OPTIONAL_ASSETS

\* What the fetch of an asset gives cache.add / cache.addAll.
AssetOutcomes == {NetworkResponse(200, 0), NetworkResponse(404, 0), Rejected}

\* cache.add / cache.addAll take a response that is ok, and reject otherwise.
addable(outcome) == outcome # Rejected /\ ok(outcome)

\* The worker is being installed: caches.open(STATIC_CACHE) has resolved and
\* cache.addAll(CRITICAL_ASSETS) has started its fetches.
ServiceWorkerInstalling ==
    /\ swCaches = [n \in {STATIC_CACHE} |-> [a \in Assets |-> NULL]]
    /\ swEvents = <<>>
    /\ swPuts = <<>>
    /\ swSerial = 0
    /\ swLifecycle = [ state |-> "installing", step |-> "critical",
                       fetched |-> [a \in Assets |-> NULL],
                       skipWaiting |-> FALSE ]

\* The fetch of an asset settles, for the step that is running.
assetFetched(asset, outcome) ==
    /\ swLifecycle.state = "installing"
    /\ \/ swLifecycle.step = "critical" /\ asset \in CRITICAL_ASSETS
       \/ swLifecycle.step = "optional" /\ asset \in OPTIONAL_ASSETS
    /\ swLifecycle.fetched[asset] = NULL
    /\ swLifecycle' = [swLifecycle EXCEPT !.fetched[asset] = outcome]
    /\ swCaches' =
         IF swLifecycle.step = "optional" /\ addable(outcome)
         THEN [swCaches EXCEPT ![STATIC_CACHE][asset] = outcome]
         ELSE swCaches
    /\ UNCHANGED <<swEvents, swPuts, swSerial>>

\* The assets whose failure rejects the promise given to event.waitUntil,
\* changed to count the optional assets too (no .catch on cache.add).
failingAssets_optionalToo ==
    { a \in Assets : swLifecycle.fetched[a] # NULL /\ ~addable(swLifecycle.fetched[a]) }

\* The assets whose failure rejects the promise given to event.waitUntil:
\* cache.addAll(CRITICAL_ASSETS) rejects; each cache.add(url) of an optional
\* asset has its own .catch.
failingAssets ==
    { a \in CRITICAL_ASSETS :
        swLifecycle.fetched[a] # NULL /\ ~addable(swLifecycle.fetched[a]) }

\* cache.addAll(CRITICAL_ASSETS) settles once every fetch has: it stores all
\* the responses, or none and rejects, which fails the installation.
addAllSettles ==
    /\ swLifecycle.state = "installing" /\ swLifecycle.step = "critical"
    /\ \A a \in CRITICAL_ASSETS : swLifecycle.fetched[a] # NULL
    /\ IF failingAssets = {}
       THEN /\ swCaches' = [swCaches EXCEPT ![STATIC_CACHE] =
                              [a \in Assets |-> IF a \in CRITICAL_ASSETS
                                                THEN swLifecycle.fetched[a] ELSE @[a]]]
            /\ swLifecycle' = [swLifecycle EXCEPT !.step = "optional"]
       ELSE /\ swCaches' = swCaches
            /\ swLifecycle' = [swLifecycle EXCEPT !.state = "redundant", !.step = "failed"]
    /\ UNCHANGED <<swEvents, swPuts, swSerial>>

\* Promise.allSettled(...) resolves, then .then(() => self.skipWaiting()).
skipWaiting ==
    /\ swLifecycle.state = "installing" /\ swLifecycle.step = "optional"
    /\ \A a \in OPTIONAL_ASSETS : swLifecycle.fetched[a] # NULL
    /\ swLifecycle' =
         IF failingAssets = {}
         THEN [swLifecycle EXCEPT !.state = "installed", !.step = "done", !.skipWaiting = TRUE]
         ELSE [swLifecycle EXCEPT !.state = "redundant", !.step = "failed"]
    /\ UNCHANGED <<swCaches, swEvents, swPuts, swSerial>>

InitSWInstall ==
    /\ ServiceWorkerInstalling
    /\ PageIdle
    /\ NoHost

NextSWInstall ==
    \/ \E asset \in Assets, outcome \in AssetOutcomes :
         assetFetched(asset, outcome) /\ UNCHANGED <<pageVars, hostVars>>
    \/ addAllSettles /\ UNCHANGED <<pageVars, hostVars>>
    \/ skipWaiting /\ UNCHANGED <<pageVars, hostVars>>

SpecSWInstall == InitSWInstall /\ [][NextSWInstall]_vars

\* C27: the installation succeeds only with '/', '/index.html' and
\* '/offline.html' in the static cache; it fails only when a critical asset
\* could not be cached, never for an optional one; skipWaiting is called only
\* after the caching of both lists is over.
C27_InstallNeedsCriticalAssets ==
    /\ swLifecycle.state = "installed" =>
          \A a \in {<<>>, <<"index.html">>, <<"offline.html">>} :
              /\ swCaches[STATIC_CACHE][a] # NULL
              /\ swCaches[STATIC_CACHE][a].status = 200
    /\ swLifecycle.state = "redundant" =>
          \E a \in {<<>>, <<"index.html">>, <<"offline.html">>} :
              /\ swLifecycle.fetched[a] # NULL
              /\ swLifecycle.fetched[a].status # 200
    /\ swLifecycle.skipWaiting =>
          /\ swLifecycle.state = "installed"
          /\ \A a \in Assets : swLifecycle.fetched[a] # NULL

\* Installed although '/icon.png' answered 404 and '/Panama.avif' could not
\* be fetched.
C27_Witness ==
    /\ swLifecycle.state = "installed" /\ swLifecycle.skipWaiting
    /\ swLifecycle.fetched[<<"icon.png">>].status = 404
    /\ swLifecycle.fetched[<<"Panama.avif">>] = Rejected
    /\ swCaches[STATIC_CACHE][<<"icon.png">>] = NULL

-----------------------------------------------------------------------------
(* Service worker, later version (PR_SUMMARY.md): the fetch listener *)

\* A request of the later listener also has a mode; a cache entry is looked
\* up by the URL of a GET request.
LaterRequest(sameOrigin, path, mode) ==
    [method |-> "GET", sameOrigin |-> sameOrigin, path |-> path, mode |-> mode]

LaterRequests ==
    { LaterRequest(TRUE, <<"api", "v1", "health">>, "cors"),
      LaterRequest(TRUE, <<"index.html">>, "navigate"),
      LaterRequest(TRUE, <<"static", "main.js">>, "no-cors") }

urlOf(request) == [sameOrigin |-> request.sameOrigin, path |-> request.path]
OfflinePage == [sameOrigin |-> TRUE, path |-> <<"offline.html">>]
LaterUrls == { urlOf(r) : r \in LaterRequests } \cup {OfflinePage}

LaterStatuses == {200, 500}

\* new Response('<h1>Offline</h1>...', { status: 503, ... 'text/html' })
OfflineHTMLResponse ==
    [kind |-> "synthetic", status |-> 503, serial |-> 0, body |-> "<h1>Offline</h1>"]

\* caches.match(request) over the static and the API cache.
cachesMatch_later(url) ==
    IF swCaches[STATIC_CACHE][url] # NULL THEN swCaches[STATIC_CACHE][url]
    ELSE swCaches[API_CACHE][url]

\* An active worker of the later version.  '/offline.html' was cached by the
\* install; it can have been evicted since.  localStorage is not defined in
\* the scope of a service worker; a harness that runs the script can define it.
LaterWorkerActive ==
    /\ \E offline \in {NULL, InstalledResponse} :
         swCaches = [n \in CacheNames |->
                       [u \in LaterUrls |->
                          IF n = STATIC_CACHE /\ u = OfflinePage THEN offline ELSE NULL]]
    /\ swEvents = <<>>
    /\ swPuts = <<>>
    /\ swSerial = 0
    /\ \E defined \in BOOLEAN :
         swLifecycle = [state |-> "activated", localStorage |-> defined, timers |-> {}]

\* The listener up to its first await.
onFetch_later(request) ==
    /\ Len(swEvents) < MaxEvents
    /\ swEvents' = Append(swEvents,
          [ request |-> request,
            networkFirst |-> isNetworkFirst(request),
            pc |-> IF isNetworkFirst(request) THEN "fetch" ELSE "match",
            network |-> NULL,
            reply |-> NULL ])
    /\ UNCHANGED <<swCaches, swPuts, swSerial, swLifecycle>>

\* fetch(request) resolves: the response is the answer (unless the cached
\* one was given already), and an ok response is handed to caches.open.
networkResponds_later(e, status) ==
    /\ e \in DOMAIN swEvents
    /\ swEvents[e].pc \in {"fetch", "revalidate"}
    /\ swSerial' = swSerial + 1
    /\ LET ev == swEvents[e]
           response == NetworkResponse(status, swSerial + 1)
       IN  /\ swEvents' =
                [swEvents EXCEPT ![e] =
                   [ev EXCEPT !.pc = "done", !.network = response,
                              !.reply = IF ev.pc = "fetch" THEN response ELSE ev.reply]]
           /\ swPuts' = putIfOk(IF ev.networkFirst THEN API_CACHE ELSE STATIC_CACHE,
                                ev.request, response)
    /\ UNCHANGED <<swCaches, swLifecycle>>

\* What the catch of the static branch does with a failed fetch, changed to
\* rethrow for every request.
afterStaticFailure_rethrow(ev) ==
    [ev EXCEPT !.pc = "done", !.network = Rejected, !.reply = Rejected]

\* .catch((err) => { if (request.mode === 'navigate') return
\* caches.match('/offline.html')...; throw err; })
afterStaticFailure(ev) ==
    IF ev.request.mode = "navigate"
    THEN [ev EXCEPT !.pc = "offline", !.network = Rejected]
    ELSE [ev EXCEPT !.pc = "done", !.network = Rejected, !.reply = Rejected]

\* fetch(request) rejects.
networkFails_later(e) ==
    /\ e \in DOMAIN swEvents
    /\ swEvents[e].pc \in {"fetch", "revalidate"}
    /\ LET ev == swEvents[e]
       IN  swEvents' =
             [swEvents EXCEPT ![e] =
                IF ev.networkFirst THEN [ev EXCEPT !.pc = "match", !.network = Rejected]
                ELSE IF ev.pc = "revalidate" THEN [ev EXCEPT !.pc = "done", !.network = Rejected]
                ELSE afterStaticFailure(ev)]
    /\ UNCHANGED <<swCaches, swPuts, swSerial, swLifecycle>>

\* caches.match(request), or caches.match('/offline.html'), resolves.
cacheMatched_later(e) ==
    /\ e \in DOMAIN swEvents
    /\ swEvents[e].pc \in {"match", "offline"}
    /\ LET ev == swEvents[e]
           cached == cachesMatch_later(urlOf(ev.request))
           offlinePage == cachesMatch_later(OfflinePage)
       IN  swEvents' =
             [swEvents EXCEPT ![e] =
                IF ev.pc = "offline"
                THEN [ev EXCEPT !.pc = "done",
                                !.reply = IF offlinePage # NULL THEN offlinePage
                                          ELSE OfflineHTMLResponse]
                ELSE IF ev.networkFirst
                THEN [ev EXCEPT !.pc = "done",
                                !.reply = IF cached # NULL THEN cached ELSE OfflineResponse]
                ELSE IF cached # NULL
                THEN [ev EXCEPT !.pc = "revalidate", !.reply = cached]
                ELSE [ev EXCEPT !.pc = "fetch"]]
    /\ UNCHANGED <<swCaches, swPuts, swSerial, swLifecycle>>

\* setTimeout(() => { cache.delete(request)... }, 5 * 60 * 1000)
expire(timer) == [swCaches EXCEPT ![API_CACHE][timer.url] = NULL]

\* caches.open(name).then(cache => ...): cache.put stores the response; on
\* the API branch localStorage.setItem follows, which throws where
\* localStorage is not defined, and then setTimeout.
cacheOpened_later(i) ==
    /\ i \in DOMAIN swPuts
    /\ swPuts' = Remove(swPuts, i)
    /\ swCaches' = [swCaches EXCEPT ![swPuts[i].cache][urlOf(swPuts[i].request)] =
                       swPuts[i].response]
    /\ swLifecycle' =
         IF swPuts[i].cache = API_CACHE /\ swLifecycle.localStorage
         THEN [swLifecycle EXCEPT !.timers = @ \cup
                 {[url |-> urlOf(swPuts[i].request), serial |-> swPuts[i].response.serial]}]
         ELSE swLifecycle
    /\ UNCHANGED <<swEvents, swSerial>>

\* Five minutes after its setTimeout a timer fires.
timerFires(timer) ==
    /\ timer \in swLifecycle.timers
    /\ swCaches' = expire(timer)
    /\ swLifecycle' = [swLifecycle EXCEPT !.timers = @ \ {timer}]
    /\ UNCHANGED <<swEvents, swPuts, swSerial>>

InitSWLater ==
    /\ LaterWorkerActive
    /\ PageIdle
    /\ NoHost

NextSWLater ==
    \/ \E request \in LaterRequests : onFetch_later(request) /\ UNCHANGED <<pageVars, hostVars>>
    \/ \E e \in 1..MaxEvents, status \in LaterStatuses :
         networkResponds_later(e, status) /\ UNCHANGED <<pageVars, hostVars>>
    \/ \E e \in 1..MaxEvents : networkFails_later(e) /\ UNCHANGED <<pageVars, hostVars>>
    \/ \E e \in 1..MaxEvents : cacheMatched_later(e) /\ UNCHANGED <<pageVars, hostVars>>
    \/ \E i \in 1..MaxEvents : cacheOpened_later(i) /\ UNCHANGED <<pageVars, hostVars>>
    \/ \E url \in LaterUrls, serial \in 1..MaxEvents :
         timerFires([url |-> url, serial |-> serial]) /\ UNCHANGED <<pageVars, hostVars>>

SpecSWLater == InitSWLater /\ [][NextSWLater]_vars

\* C28: every response stored in the API cache has the expiry timer of its
\* own store running, stays in the cache until that timer fires and is
\* removed by it; the timer of an earlier store of the same request leaves
\* the entry of a later store alone.
C28_ApiCacheExpiry ==
    /\ [](\A u \in LaterUrls :
            swCaches[API_CACHE][u] # NULL =>
               [url |-> u, serial |-> swCaches[API_CACHE][u].serial] \in swLifecycle.timers)
    /\ [][ \A u \in LaterUrls :
             (swCaches[API_CACHE][u] # NULL /\ swCaches'[API_CACHE][u] = NULL) =>
                [url |-> u, serial |-> swCaches[API_CACHE][u].serial]
                    \in swLifecycle.timers \ swLifecycle'.timers ]_vars

\* C29: a same-origin request outside /api/ with no cached match whose fetch
\* fails is answered, when it is a navigation, with the cached
\* '/offline.html' if there is one and with the synthetic 503 HTML response
\* otherwise, and never with a rejection; when it is no navigation the
\* failure goes to the client.
C29_OfflineNavigation ==
    \A e \in DOMAIN swEvents :
        LET ev == swEvents[e]
        IN  ( /\ ev.request.sameOrigin
              /\ ~(Len(ev.request.path) >= 2 /\ ev.request.path[1] = "api")
              /\ ev.network = Rejected
              /\ ev.pc = "done"
              /\ cachesMatch_later(urlOf(ev.request)) = NULL ) =>
               IF ev.request.mode = "navigate"
               THEN \/ /\ swCaches[STATIC_CACHE][OfflinePage] # NULL
                       /\ ev.reply = swCaches[STATIC_CACHE][OfflinePage]
                    \/ /\ swCaches[STATIC_CACHE][OfflinePage] = NULL
                       /\ ev.reply.status = 503 /\ ev.reply.body = "<h1>Offline</h1>"
               ELSE ev.reply = Rejected

\* Two navigations to '/index.html' failed offline: both were answered with
\* the cached offline page.
C29_Witness ==
    /\ Len(swEvents) = 2
    /\ \A e \in 1..2 :
         /\ swEvents[e].request.mode = "navigate"
         /\ swEvents[e].network = Rejected
         /\ swEvents[e].reply = InstalledResponse
    /\ swCaches[STATIC_CACHE][urlOf(swEvents[1].request)] = NULL

-----------------------------------------------------------------------------
(* Electron main process (part_002): the life of the main window *)

\* A BrowserWindow, told apart by the order of construction.
BrowserWindow(id) == [kind |-> "window", id |-> id]

\* How a run of createWindow goes: to its end, or up to the statement that
\* throws: windowStateKeeper(...), new BrowserWindow(...),
\* mainWindowState.manage, loadURL / openDevTools / loadFile,
\* mainWindow.on('closed', ...), or the registration of the navigation and
\* window-open handlers.
CreateOutcomes == {"ok", "state", "construct", "manage", "load", "closed", "handlers"}

\* The statements of createWindow in the order they run.
stageOf(outcome) ==
    CASE outcome = "state" -> 1
      [] outcome = "construct" -> 2
      [] outcome = "manage" -> 3
      [] outcome = "load" -> 4
      [] outcome = "closed" -> 5
      [] outcome = "handlers" -> 6
      [] outcome = "ok" -> 7

Platforms == {"darwin", "linux", "win32"}

\* The main process after the script has run: nothing is ready yet.
MainStarted(isDev, platform) ==
    [ isDev |-> isDev, platform |-> platform,
      app |-> "starting",
      mainWindow |-> Undefined, \* let mainWindow;
      windows |-> {},           \* the BrowserWindows that exist
      listening |-> {},         \* those with the 'closed' listener
      allClosed |-> FALSE,      \* window-all-closed is due
      created |-> 0,
      dialogs |-> 0,
      escaped |-> FALSE,
      last |-> <<"start", "", "">> ]

\* app.quit(): every window is closed (their 'closed' listeners run) and the
\* process ends; window-all-closed is not emitted then.
appQuit(d) ==
    [d EXCEPT !.app = "quit",
              !.mainWindow = IF d.windows \cap d.listening # {} THEN NULL ELSE @,
              !.windows = {}, !.listening = {}, !.allClosed = FALSE]

\* The try block as the indentation of the source suggests it: closed
\* before the page is loaded.
inTry_asIndented(outcome) == stageOf(outcome) <= 3

\* The try block as its braces are: every statement of createWindow.
inTry(outcome) == stageOf(outcome) <= 6

\* catch (error) { dialog.showErrorBox(...); mainWindow = null; app.quit(); }
catchCreate(d) ==
    appQuit([d EXCEPT !.dialogs = @ + 1, !.mainWindow = NULL])

\* createWindow up to the statement that throws (or to its end).
createWindow(d, outcome, via) ==
    LET w == BrowserWindow(d.created + 1)
        constructed == stageOf(outcome) > 2
        tried == [d EXCEPT
                    !.created = IF constructed THEN @ + 1 ELSE @,
                    !.windows = IF constructed THEN @ \cup {w} ELSE @,
                    !.mainWindow = IF constructed THEN w ELSE @,
                    !.listening = IF stageOf(outcome) > 5 THEN @ \cup {w} ELSE @,
                    !.last = <<"createWindow", outcome, via>>]
    IN  IF outcome = "ok" THEN tried
        ELSE IF inTry(outcome) THEN catchCreate(tried)
        ELSE [tried EXCEPT !.escaped = TRUE]

\* app.whenReady().then(createWindow)
whenReady(outcome) ==
    /\ desktop.app = "starting"
    /\ desktop' = createWindow([desktop EXCEPT !.app = "ready"], outcome, "ready")

\* The activate listener, changed to create a window every time.
activateCreates_always(mainWindow) == TRUE

\* if (mainWindow === null) createWindow();
activateCreates(mainWindow) == mainWindow = NULL

\* app.on('activate', ...): macOS emits it at launch and when the dock icon
\* is clicked.
activate(outcome) ==
    /\ desktop.platform = "darwin"
    /\ desktop.app \in {"starting", "ready"}
    /\ desktop.created < MaxWindows
    /\ desktop' =
         IF activateCreates(desktop.mainWindow)
         THEN createWindow(desktop, outcome, "activate")
         ELSE [desktop EXCEPT !.last = <<"activate", "nothing", "activate">>]

\* The user closes a window: mainWindow.on('closed', () => { mainWindow = null; })
\* runs if it is registered on it; with no window left window-all-closed is due.
closed(w) ==
    /\ desktop.app = "ready"
    /\ w \in desktop.windows
    /\ desktop' = [desktop EXCEPT
                     !.windows = @ \ {w},
                     !.listening = @ \ {w},
                     !.mainWindow = IF w \in desktop.listening THEN NULL ELSE @,
                     !.allClosed = (desktop.windows = {w}),
                     !.last = <<"closed", "window", "user">>]

\* if (process.platform !== 'darwin') app.quit();
quitsWhenAllClosed(platform) == platform # "darwin"

\* app.on('window-all-closed', ...)
windowAllClosed ==
    /\ desktop.app = "ready"
    /\ desktop.allClosed
    /\ desktop' =
         IF quitsWhenAllClosed(desktop.platform)
         THEN [appQuit(desktop) EXCEPT !.last = <<"window-all-closed", "quit", "">>]
         ELSE [desktop EXCEPT !.allClosed = FALSE, !.last = <<"window-all-closed", "stay", "">>]

InitLifecycle ==
    /\ \E isDev \in BOOLEAN, platform \in Platforms : desktop = MainStarted(isDev, platform)
    /\ installPWA = NULL /\ pwaBrowser = NULL /\ platformInfo = NULL
    /\ PageIdle
    /\ NoServiceWorker

NextLifecycle ==
    \/ \E outcome \in CreateOutcomes :
         whenReady(outcome) /\ UNCHANGED <<pageVars, swVars, pwaVars>>
    \/ \E outcome \in CreateOutcomes :
         activate(outcome) /\ UNCHANGED <<pageVars, swVars, pwaVars>>
    \/ \E id \in 1..MaxWindows :
         closed(BrowserWindow(id)) /\ UNCHANGED <<pageVars, swVars, pwaVars>>
    \/ windowAllClosed /\ UNCHANGED <<pageVars, swVars, pwaVars>>

SpecLifecycle == InitLifecycle /\ [][NextLifecycle]_vars

\* C31: at most one main window exists at any time; activate runs
\* createWindow only when mainWindow is null; mainWindow is null whenever
\* the window has been closed; window-all-closed quits the app iff the
\* platform is not darwin.
C31_OneMainWindow ==
    /\ [](Cardinality(desktop.windows) <= 1)
    /\ [](desktop.created > 0 /\ desktop.windows = {} => desktop.mainWindow = NULL)
    /\ [][ /\ (desktop'.last[1] = "createWindow" /\ desktop'.last[3] = "activate"
                  => desktop.mainWindow = NULL)
           /\ (desktop'.last[1] = "window-all-closed"
                  => ((desktop'.app = "quit") <=> (desktop.platform # "darwin"))) ]_vars

\* On macOS the window was closed, the app stayed, and activate has made the
\* second window.
C31_Witness ==
    /\ desktop.platform = "darwin"
    /\ desktop.app = "ready"
    /\ desktop.windows = {BrowserWindow(2)}
    /\ desktop.mainWindow = BrowserWindow(2)
    /\ desktop.last = <<"createWindow", "ok", "activate">>

\* C32: when a statement of createWindow throws, the error dialog is shown,
\* mainWindow is set to null and app.quit() is called; the exception does
\* not leave createWindow and no reference to the half-made window is kept.
C32_CreateFailureHandled ==
    [][ (desktop'.last[1] = "createWindow" /\ desktop'.last[2] # "ok")
          => /\ desktop'.dialogs = desktop.dialogs + 1
             /\ desktop'.mainWindow = NULL
             /\ desktop'.app = "quit"
             /\ ~desktop'.escaped ]_vars

\* The window was constructed and loading it threw: the app has quit with
\* mainWindow null.
C32_Witness ==
    /\ desktop.last = <<"createWindow", "load", "ready">>
    /\ desktop.created = 1
    /\ desktop.dialogs = 1
    /\ desktop.mainWindow = NULL
    /\ desktop.app = "quit"

-----------------------------------------------------------------------------
(* The selection over the whole life of BulkScreening: files, submissions
   and the selection controls together *)

\* A file that is accepted and one that is not.
SelectionFiles == { File("a", ".csv", 1024), File("c", ".txt", 1024) }

\* The responses of these runs: no record, a hit between two clears, and
\* the response that is longer than a page.
SelectionResponses ==
    { BulkResponse(<<>>),
      BulkResponse(<<Clear, Hit(<<Match(MidConfidence, "REJECT")>>), Clear>>),
      LongResponse }

InitSelection ==
    /\ BulkMounted
    /\ healthStatus = [status |-> "healthy"]
    /\ activeTab = "bulk"
    /\ screeningLoading = FALSE /\ screeningResult = NULL /\ indivRequests = <<>>
    /\ bulkRequests = <<>> /\ reportRequests = <<>>
    /\ opened = NULL
    /\ csv = NULL
    /\ uiSteps = 0
    /\ NoServiceWorker
    /\ NoHost

NextSelection ==
    \/ \E f \in SelectionFiles :
         handleFileChange(f) /\ UNCHANGED <<appVars, uiSteps, swVars, hostVars>>
    \/ \E f \in SelectionFiles :
         handleDrop(f) /\ UNCHANGED <<appVars, uiSteps, swVars, hostVars>>
    \/ handleSubmit /\ UNCHANGED <<appVars, uiSteps, swVars, hostVars>>
    \/ handleClear /\ UNCHANGED <<appVars, uiSteps, swVars, hostVars>>
    \/ \E i \in 1..MaxInFlight, o \in {"ok", "http_error"} :
         \E data \in (IF o = "ok" THEN SelectionResponses ELSE {NULL}) :
           submitSettles(i, o, data) /\ UNCHANGED <<appVars, uiSteps, swVars, hostVars>>
    \/ \E k \in ClickedRows : toggleSelection(k) /\ UserStep
    \/ headerCheckbox /\ UserStep
    \/ selectAll /\ UserStep
    \/ selectAllHits /\ UserStep
    \/ clearSelection /\ UserStep
    \/ \E f \in Filters : handleFilterChange(f) /\ UserStep
    \/ \E n \in PAGE_SIZES : handlePageSizeChange(n) /\ UserStep
    \/ \E page \in 1..2 : setCurrentPage(page) /\ UserStep

SpecSelection == InitSelection /\ [][NextSelection]_vars

\* C33: selectedResults holds only original indices of the results on
\* display (0..n-1, nothing while results is null); it is emptied when a
\* file is accepted, when a submission succeeds and by handleClear.
C33_SelectionInRange ==
    /\ [](\A i \in Range(selectedResults) : i \in 0..(Len(resultList) - 1))
    /\ [](results = NULL => selectedResults = <<>>)
    /\ [][ (results' # results \/ file' # file) => selectedResults' = <<>> ]_vars

\* After clicks on the results of one file another file was dropped: the
\* results and the selection are gone.
C33_Witness ==
    /\ uiSteps > 0
    /\ file # NULL
    /\ results = NULL
    /\ selectedResults = <<>>

-----------------------------------------------------------------------------
(* Claims on what the selection controls select *)

\* The record passes the filter on display.
PassesFilter(r) ==
    \/ filterType = "all"
    \/ filterType = "hits" /\ r.is_hit
    \/ filterType = "clear" /\ ~r.is_hit

\* The original (0-based) indices of the records the filter lets through.
ShownOriginals == { i \in 0..(Len(resultList) - 1) : PassesFilter(resultList[i + 1]) }

\* The original index of the record displayed at place k of the filtered
\* list: the one with k displayed records before it.
OriginalOfRow(k) ==
    CHOOSE i \in ShownOriginals : Cardinality({ j \in ShownOriginals : j < i }) = k

\* The original indices of the rows of the page on display.
PageOriginals ==
    { OriginalOfRow(k) : k \in { k \in 0..(Cardinality(ShownOriginals) - 1) :
                                   (currentPage - 1) * pageSize <= k /\ k < currentPage * pageSize } }

\* C34: the checkbox of a row, under any filter and page, adds or removes
\* exactly the original index of the row's record; a row is drawn checked
\* iff its original index is selected; a change of filter, page or page size
\* leaves the selection as it is.
C34_SelectionByOriginalIndex ==
    /\ [](\A k \in RowIndices :
            isSelected(k) <=> OriginalOfRow(k) \in Range(selectedResults))
    /\ [][ /\ \A k \in ClickedRows :
                toggleSelection(k) =>
                   Range(selectedResults') =
                      IF OriginalOfRow(k) \in Range(selectedResults)
                      THEN Range(selectedResults) \ {OriginalOfRow(k)}
                      ELSE Range(selectedResults) \cup {OriginalOfRow(k)}
           /\ ( /\ results' = results /\ file' = file /\ bulkRequests' = bulkRequests
                 /\ \/ filterType' # filterType
                    \/ currentPage' # currentPage
                    \/ pageSize' # pageSize )
                 => selectedResults' = selectedResults ]_vars

\* Under the filter "hits" the first row drawn is the third record of the
\* long response: its checkbox selected index 2, and the change to "clear"
\* kept the selection.
C34_Witness ==
    /\ Len(resultList) = DEFAULT_PAGE_SIZE + 1
    /\ filterType = "clear"
    /\ selectedResults = <<2>>
    /\ uiSteps = 3

\* C35: the header checkbox, when it checks, adds exactly the original
\* indices of the rows of the current page and, when it unchecks, removes
\* exactly those; it is drawn checked iff the page has rows and all of them
\* are selected; selectAllHits makes the selection the indices of the hits.
C35_PageSelection ==
    /\ []( results # NULL =>
             ((allOnPageSelected /\ Len(paginatedResults) > 0) <=>
                (PageOriginals # {} /\ PageOriginals \subseteq Range(selectedResults))) )
    /\ [][ /\ selectAllOnPage => Range(selectedResults') = Range(selectedResults) \cup PageOriginals
           /\ deselectAllOnPage => Range(selectedResults') = Range(selectedResults) \ PageOriginals
           /\ selectAllHits =>
                Range(selectedResults') =
                   { i \in 0..(Len(resultList) - 1) : resultList[i + 1].is_hit } ]_vars

\* On the long response the first record, a clear one, was selected; then,
\* under "hits", the header checkbox added the three hits of the page.
C35_Witness ==
    /\ Len(resultList) = DEFAULT_PAGE_SIZE + 1
    /\ filterType = "hits"
    /\ Range(selectedResults) = {0, 2, 5, 8}
    /\ allOnPageSelected

-----------------------------------------------------------------------------
(* The results table and the CSV export side by side *)

\* Echoed inputs: the backend's field names, the alternative ones, a
\* document under "documento", texts that the CSV has to quote, no field at
\* all, and no input.
EchoedInputs ==
    { EchoedInput,
      Input(NoText, <<"Ana">>, NoText, <<"8-123">>, NoText, NoText, <<"PA">>),
      Input(<<"Ana">>, NoText, NoText, NoText, <<"8-123">>, <<"PA">>, NoText),
      Input(<<"Perez", ",", "Ana">>, NoText, <<"8", "\"", "123">>, NoText, NoText,
            <<"PA">>, NoText),
      Input(NoText, NoText, NoText, NoText, NoText, NoText, NoText),
      NULL }

ExportResponses ==
    { BulkResponse(rs) :
        rs \in UNION { [1..n -> { [Clear EXCEPT !.input = i] : i \in EchoedInputs }
                                  \cup {Hit(<<Match(MidConfidence, "REJECT")>>)}]
                       : n \in 1..MaxResults } }

InitExport ==
    /\ \E data \in ExportResponses : BulkLoaded(data)
    /\ file = AcceptedFile
    /\ healthStatus = [status |-> "healthy"]
    /\ activeTab = "bulk"
    /\ screeningLoading = FALSE /\ screeningResult = NULL /\ indivRequests = <<>>
    /\ bulkRequests = <<>> /\ reportRequests = <<>>
    /\ opened = NULL
    /\ csv = NULL
    /\ uiSteps = 0
    /\ NoServiceWorker
    /\ NoHost

NextExport ==
    \/ exportResults /\ UNCHANGED <<appVars, uiSteps, swVars, hostVars>>
    \/ \E f \in Filters : handleFilterChange(f) /\ UserStep
    \/ \E k \in 0..(MaxResults - 1) : toggleSelection(k) /\ UserStep

SpecExport == InitExport /\ [][NextExport]_vars

RECURSIVE singleQuotes(_)
\* Reading a CSV field back: "" inside a quoted field is one quote.
singleQuotes(str) ==
    IF str = <<>> THEN <<>>
    ELSE IF Len(str) >= 2 /\ str[1] = "\"" /\ str[2] = "\""
    THEN <<"\"">> \o singleQuotes(Tail(Tail(str)))
    ELSE <<Head(str)>> \o singleQuotes(Tail(str))

readCSVField(str) ==
    IF str # <<>> /\ Head(str) = "\""
    THEN singleQuotes(SubSeq(str, 2, Len(str) - 1))
    ELSE str

\* The text of a table cell; '-' is what the table draws for no text.
cellText(cell) == IF cell = <<"-">> THEN NoText ELSE cell

\* C36: the CSV has one row for each result, in the order of the response,
\* whatever the filter and the selection; the name, document and country of
\* a row, read back from the CSV, are those the table shows for the result,
\* also when the echoed input uses name / document / documento / country.
C36_ExportMatchesTable ==
    csv # NULL =>
       /\ Len(csv.rows) = Len(resultList)
       /\ \A i \in DOMAIN csv.rows :
            /\ readCSVField(csv.rows[i].nombre) = cellText(TableRows[i].nombre)
            /\ readCSVField(csv.rows[i].documento) = cellText(TableRows[i].documento)
            /\ readCSVField(csv.rows[i].pais) = cellText(TableRows[i].pais)
            /\ csv.rows[i].coincidencias = resultList[i].hit_count

=============================================================================
